---- MODULE Spec2Model ----
(***************************************************************************)
(* Model of the objective / key-result layer of mcp-workboard-crunchtools: *)
(* tools/objectives.py (update_key_result, get_my_objectives,              *)
(* get_objectives and the formatters), the id validators and the input     *)
(* model of models.py, the errors of errors.py and the client of           *)
(* client.py: its handle, its requests and its mapping of responses.       *)
(*                                                                         *)
(* JSON values that reach the code are tagged records, so that Python's    *)
(* conversions (int(), float(), truthiness, dict.get) are computed and can *)
(* fail the way they fail in the code.                                     *)
(***************************************************************************)
EXTENDS Integers, Sequences, FiniteSets, TLC

\* ------------------------------------------------------------------ bounds

\* Largest achieved value the backend or a caller uses.
MaxVal == 2

\* ------------------------------------------------------------- JSON values

JAbsent == [t |-> "absent"]
JNull == [t |-> "null"]
JEmpty == [t |-> "empty"]
JText == [t |-> "text"]
JList == [t |-> "list"]
JNum(n) == [t |-> "num", v |-> n]
\* A JSON number beyond the float range (1e999), which json.loads reads as inf.
JInf == [t |-> "inf"]
JStr(n) == [t |-> "numstr", v |-> n]
JName(s) == [t |-> "name", s |-> s]

\* Outcome of a Python expression: a value, or the exception it raises.
Ok(v) == [ok |-> TRUE, v |-> v]
Exc(e) == [ok |-> FALSE, exc |-> e]

\* Python floats: a finite number, positive infinity or NaN.
F(n) == [k |-> "num", n |-> n]
Inf == [k |-> "inf", n |-> 0]
NaN == [k |-> "nan", n |-> 0]
FloatLt(a, b) ==
    CASE a.k = "nan" \/ b.k = "nan" -> FALSE
      [] a.k = "inf" -> FALSE
      [] b.k = "inf" -> TRUE
      [] OTHER -> a.n < b.n

\* dict.get(key, default)
DictGet(j, default) == IF j = JAbsent THEN default ELSE j

\* Python truthiness of a JSON scalar (used by `x or 0`).
Truthy(j) ==
    CASE j.t = "num" -> j.v # 0
      [] j.t \in {"numstr", "text", "name", "inf"} -> TRUE
      [] OTHER -> FALSE

\* int(x) for a JSON scalar.
PyInt(j) ==
    CASE j.t \in {"num", "numstr"} -> Ok(j.v)
      [] j.t = "inf" -> Exc("OverflowError")
      [] j.t \in {"text", "empty", "name"} -> Exc("ValueError")
      [] OTHER -> Exc("TypeError")

\* float(x) for a JSON scalar.
PyFloat(j) ==
    CASE j.t \in {"num", "numstr"} -> Ok(F(j.v))
      [] j.t = "inf" -> Ok(Inf)
      [] j.t \in {"text", "empty", "name"} -> Exc("ValueError")
      [] OTHER -> Exc("TypeError")

\* `x or 0`
OrZero(j) == IF Truthy(j) THEN j ELSE JNum(0)

\* isinstance(x, dict)
IsDict(j) == j.t \in {"dict", "dict_empty", "dict_nonempty", "goal", "map"}

\* d.get(name) on a dict: the value, or JAbsent when the dict has no such key.
Field(j, name) == IF name \in DOMAIN j THEN j[name] ELSE JAbsent

\* int(x) for a float.
IntOfFloat(f) ==
    CASE f.k = "num" -> Ok(f.n)
      [] f.k = "inf" -> Exc("OverflowError")
      [] OTHER -> Exc("ValueError")

\* ------------------------------------------------------------------ errors

UserErrors ==
    {"WorkBoardApiError", "NotFoundError", "PermissionDeniedError", "RateLimitError",
     "InvalidUserIdError", "InvalidObjectiveIdError", "InvalidMetricIdError",
     "ConfigurationError", "ValidationError"}

IsUserError(e) == e \in UserErrors

\* What WorkBoardClient._request can raise for one request: the UserError
\* subclasses of _handle_error_response and of the transport failures, and the
\* AttributeError of _handle_error_response on an error body that is no dict.
TransportRaises ==
    {"WorkBoardApiError", "NotFoundError", "PermissionDeniedError", "RateLimitError",
     "AttributeError"}

\* -------------------------------------------------------------- validators

validate_metric_id(metric_id) ==
    IF metric_id <= 0 THEN Exc("InvalidMetricIdError") ELSE Ok(metric_id)

\* validate_objective_id letting the id 0 through.
ValidateObjectiveIdNonNegative(objective_id) ==
    IF objective_id < 0 THEN Exc("InvalidObjectiveIdError") ELSE Ok(objective_id)

validate_objective_id(objective_id) ==
    IF objective_id <= 0 THEN Exc("InvalidObjectiveIdError") ELSE Ok(objective_id)

validate_user_id(user_id) ==
    IF user_id <= 0 THEN Exc("InvalidUserIdError") ELSE Ok(user_id)

\* Field bounds of UpdateKeyResultInput.
MinValueLen == 1
MaxValueLen == 20
MaxCommentLen == 1000

\* A value string: its form (digits, a negative number, "nan", other text), the
\* number it denotes and its length; a comment: None or a string of some length.
ValueStr(form, n, len) == [n |-> n, form |-> form, len |-> len]
NoComment == [present |-> FALSE, len |-> 0]
Comment(len) == [present |-> TRUE, len |-> len]

\* float(v) for a value string.
FloatOfValue(v) ==
    CASE v.form = "digits" -> Ok(F(v.n))
      [] v.form = "neg" -> Ok(F(0 - v.n))
      [] v.form = "nan" -> Ok(NaN)
      [] OTHER -> Exc("ValueError")

\* UpdateKeyResultInput(value=..., comment=...): TRUE when the model validates.
UpdateKeyResultInputOk(value, comment) ==
    /\ value.len >= MinValueLen
    /\ value.len <= MaxValueLen
    /\ FloatOfValue(value).ok
    /\ ~FloatLt(FloatOfValue(value).v, F(0))
    /\ (comment.present => comment.len <= MaxCommentLen)

\* ------------------------------------------------- GET /metric responses

\* A record of the metric collection. A field the backend leaves out is JAbsent.
MetricRec(id, achieved, name, target_date, goal_id) ==
    [t |-> "dict", metric_id |-> id, metric_achieve_target |-> achieved,
     metric_name |-> name, target_date |-> target_date, metric_goal_id |-> goal_id]

\* The parsed body of a response: a JSON array at top level, or an object whose
\* "data" is absent, null, an array, or an object whose "metric" is absent, null,
\* a non-empty object or an array of items.
TopList == [top |-> "list"]
Envelope(data) == [top |-> "dict", data |-> data]
DataDict(metric) == [t |-> "dict", metric |-> metric, user |-> JAbsent]
DataUser(user) == [t |-> "dict", metric |-> JAbsent, user |-> user]
\* data.user: the user id of /user, the goal of the objective detail endpoint.
UserNode(user_id, goal) == [t |-> "dict", user_id |-> user_id, goal |-> goal]
EmptyDict == [t |-> "dict_empty"]
GoalRec(goal_id, name, metrics) ==
    [t |-> "goal", goal_id |-> goal_id, goal_name |-> name, goal_metrics |-> metrics]
MetricDictNode == [t |-> "dict_nonempty"]
MetricItems(items) == [t |-> "list", items |-> items]

\* Outcome of client.get(): the parsed body, or the exception _request raises.
Raised(e) == [kind |-> "raise", exc |-> e]
Body(b) == [kind |-> "json", body |-> b]

\* ------------------------------------------------------ update_key_result

None == [some |-> FALSE]
Some(x) == [some |-> TRUE, f |-> x]

\* metric_name before the read-back: f"metric/{metric_id}"
DefaultName(metric_id) == [t |-> "default", metric_id |-> metric_id]

\* The loop of the read-back: the first record whose int(metric_id) equals the
\* id sets current_value and metric_name and ends the loop; any conversion that
\* raises leaves both as they were (the assignment is not reached).
RECURSIVE ScanMetrics(_, _, _)
ScanMetrics(items, metric_id, st) ==
    IF items = <<>> THEN Ok(st)
    ELSE LET m == Head(items) IN
         IF m.t # "dict" THEN Exc("AttributeError")
         ELSE LET id == PyInt(DictGet(m.metric_id, JNum(0))) IN
              IF ~id.ok THEN Exc(id.exc)
              ELSE IF id.v = metric_id
                   THEN LET cv == PyFloat(OrZero(m.metric_achieve_target)) IN
                        IF ~cv.ok THEN Exc(cv.exc)
                        ELSE Ok([current_value |-> Some(cv.v),
                                 metric_name |-> DictGet(m.metric_name, st.metric_name)])
                   ELSE ScanMetrics(Tail(items), metric_id, st)

\* current_response.get("data", {}).get("metric", []) and the loop over it.
ReadBackBody(body, metric_id, st) ==
    IF body.top # "dict" THEN Exc("AttributeError")
    ELSE LET data == body.data IN
         IF data = JAbsent THEN Ok(st)
         ELSE IF data.t # "dict" THEN Exc("AttributeError")
         ELSE LET metric == data.metric IN
              CASE metric = JAbsent -> Ok(st)
                [] metric = JNull -> Exc("TypeError")
                [] metric.t = "dict_nonempty" -> Exc("AttributeError")
                [] OTHER -> ScanMetrics(metric.items, metric_id, st)

\* The read-back without its except clause: a failure leaves the function.
ReadBackRaising(outcome, metric_id) ==
    LET st0 == [current_value |-> None, metric_name |-> DefaultName(metric_id)]
        r == IF outcome.kind = "raise" THEN Exc(outcome.exc)
             ELSE ReadBackBody(outcome.body, metric_id, st0)
    IN  IF r.ok THEN [raised |-> "none", st |-> r.v, logged |-> FALSE]
        ELSE [raised |-> r.exc, st |-> st0, logged |-> TRUE]

\* The try/except of the read-back: every Exception is swallowed and logged,
\* and current_value and metric_name keep their initial values.
ReadBack(outcome, metric_id) ==
    LET st0 == [current_value |-> None, metric_name |-> DefaultName(metric_id)]
        r == IF outcome.kind = "raise" THEN Exc(outcome.exc)
             ELSE ReadBackBody(outcome.body, metric_id, st0)
    IN  IF r.ok THEN [raised |-> "none", st |-> r.v, logged |-> FALSE]
        ELSE [raised |-> "none", st |-> st0, logged |-> TRUE]

\* The regression warning: set when current_value is known and new < current.
NoWarning == [set |-> FALSE]
WarningText(old, new, name, metric_id) ==
    [set |-> TRUE, old |-> old, new |-> new, name |-> name, metric_id |-> metric_id]

WarningForLeq(current_value, new_value, metric_name, metric_id) ==
    IF current_value.some /\ ~FloatLt(current_value.f, new_value)
    THEN WarningText(current_value.f, new_value, metric_name, metric_id)
    ELSE NoWarning

WarningFor(current_value, new_value, metric_name, metric_id) ==
    IF current_value.some /\ FloatLt(new_value, current_value.f)
    THEN WarningText(current_value.f, new_value, metric_name, metric_id)
    ELSE NoWarning

\* The lines update_key_result logs, each with the number of requests issued
\* when it is written: the read-back failure, the decrease, the update.
NoneText == [t |-> "(none)"]
OrNone(comment) == IF comment.present /\ comment.len > 0 THEN comment ELSE NoneText

ReadBackFailedLine(after) == [line |-> "readback_failed", after |-> after]
DecreaseLine(warning, after) ==
    [line |-> "AUDIT decrease", warning |-> warning, after |-> after]
UpdatedLine(metric_id, new_value, comment, after) ==
    [line |-> "AUDIT updated", metric_id |-> metric_id, new_value |-> new_value,
     comment |-> OrNone(comment), after |-> after]

\* payload of the PUT
Payload(value, comment) ==
    [metric_data |-> value, metric_comment |-> comment]

Request(method, path, body) == [method |-> method, path |-> path, body |-> body]
NoBody == [t |-> "nobody"]

\* The metric the calls update, and a second metric of the collection that no
\* call updates (its achieved value stays MaxVal).
MetricIds == {1}
DecoyIds == {2}

Procs == {"a", "b"}

VARIABLES
    ukr,        \* per invocation of update_key_result: its position and locals
    backend,    \* the backend's achieved value of each metric of MetricIds
    applied,    \* the PUTs the backend applied, in order: <<invocation, value>>
    gmo,        \* the invocation of get_my_objectives: its position and locals
    wb,         \* the process: environment, configuration, client singleton, handles
    lst,        \* the invocation of get_objectives: its position and locals
    fx          \* a helper called on its own: its name, argument and outcome

vars == <<ukr, backend, applied, gmo, wb, lst, fx>>

IdleUkr ==
    [pc |-> "idle", metric_id |-> 0, value |-> ValueStr("text", 0, 0),
     comment |-> NoComment, rb |-> "none", current_value |-> None,
     metric_name |-> JAbsent, warning |-> NoWarning, reqs |-> <<>>, log |-> <<>>,
     at_read |-> None, at_put |-> None, result |-> [keys |-> {}], err |-> "none"]

\* --- inputs a caller may pass

IdInputs == {-1, 0} \cup MetricIds

ValueInputs ==
    {ValueStr("digits", n, 1) : n \in 0..MaxVal}
    \cup {ValueStr("digits", 1, MaxValueLen), ValueStr("digits", 1, MaxValueLen + 1),
          ValueStr("neg", 1, 2), ValueStr("nan", 0, 3), ValueStr("text", 0, 3),
          ValueStr("text", 0, 0)}

CommentInputs ==
    {NoComment, Comment(0), Comment(MaxCommentLen), Comment(MaxCommentLen + 1)}

\* --- what the backend may answer to GET /metric

\* JSON encodings of an achieved value: a number or a numeric string; a zero
\* also as null, as the empty string, or left out.
Encodings(val) ==
    {JNum(val), JStr(val)} \cup (IF val = 0 THEN {JNull, JEmpty, JAbsent} ELSE {})

WellFormed(id, val) ==
    {MetricRec(i, a, n, JAbsent, JAbsent) :
        i \in {JNum(id), JStr(id)}, a \in Encodings(val),
        n \in {JName("Revenue"), JAbsent}}

DecoyRecs == UNION {WellFormed(d, MaxVal) : d \in DecoyIds}

\* A record without metric_id is passed over by the loop (int(0) matches no id).
BenignPrefixes ==
    {<<>>} \cup {<<r>> : r \in DecoyRecs}
    \cup {<<MetricRec(JAbsent, JNum(MaxVal), JAbsent, JAbsent, JAbsent)>>}

\* A record the loop cannot convert: not an object, or a non-numeric metric_id.
MalformedPrefixes ==
    {<<JNull>>, <<MetricRec(JText, JNum(MaxVal), JAbsent, JAbsent, JAbsent)>>,
     <<MetricRec(JNull, JNum(MaxVal), JAbsent, JAbsent, JAbsent)>>}

Suffixes == {<<>>, <<JNull>>}

Listing(items) == Body(Envelope(DataDict(MetricItems(items))))

\* Every answer to GET /metric for metric `id`, with what it is: "ok" (the
\* metric is there with its achieved value val), "absent", "malformed", "shape"
\* (no collection where one is expected) or "raise" (the request fails).
MetricAnswers(id, val) ==
    {[class |-> "ok", seen |-> val, out |-> Listing(pre \o <<r>> \o suf)] :
        pre \in BenignPrefixes, r \in WellFormed(id, val), suf \in Suffixes}
    \cup {[class |-> "absent", seen |-> val, out |-> Listing(pre)] : pre \in BenignPrefixes}
    \cup {[class |-> "malformed", seen |-> val, out |-> Listing(pre \o <<r>>)] :
            pre \in MalformedPrefixes, r \in WellFormed(id, val)}
    \cup {[class |-> "malformed", seen |-> val,
           out |-> Listing(<<MetricRec(JNum(id), a, JName("Revenue"), JAbsent, JAbsent)>>)] :
            a \in {JText}}
    \cup {[class |-> "shape", seen |-> val, out |-> Body(b)] :
            b \in {TopList, Envelope(JAbsent), Envelope(JNull), Envelope(JList),
                   Envelope(DataDict(JAbsent)), Envelope(DataDict(JNull)),
                   Envelope(DataDict(MetricDictNode))}}
    \cup {[class |-> "raise", seen |-> val, out |-> Raised(e)] : e \in TransportRaises}

\* The answers of a backend that always serves the plain collection, or fails.
PlainAnswers(id, val) ==
    {[class |-> "ok", seen |-> val,
      out |-> Listing(<<MetricRec(JNum(id), JStr(val), JName("Revenue"), JAbsent, JAbsent)>>)],
     [class |-> "absent", seen |-> val, out |-> Listing(<<>>)],
     [class |-> "raise", seen |-> val, out |-> Raised("WorkBoardApiError")]}

\* --- the steps of one invocation

\* Lines 365-376: validate the id, validate value and comment, then issue the
\* read-back GET /metric.
UkrCall(p, metric_id, value, comment) ==
    /\ ukr[p].pc = "idle"
    /\ LET v == validate_metric_id(metric_id)
           me == [ukr[p] EXCEPT !.metric_id = metric_id, !.value = value,
                                !.comment = comment]
       IN  ukr' = [ukr EXCEPT ![p] =
              IF ~v.ok THEN [me EXCEPT !.pc = "raised", !.err = v.exc]
              ELSE IF ~UpdateKeyResultInputOk(value, comment)
                   THEN [me EXCEPT !.pc = "raised", !.err = "PydanticValidationError"]
                   ELSE [me EXCEPT !.pc = "reading",
                                   !.reqs = <<Request("GET", <<"metric">>, NoBody)>>]]
    /\ UNCHANGED <<backend, applied, gmo, wb, lst, fx>>

\* Lines 376-402: the answer to GET /metric arrives; the read-back is parsed,
\* the warning is computed and the PUT is issued.
UkrReadBack(p, answer) ==
    /\ ukr[p].pc = "reading"
    /\ LET me == ukr[p]
           rb == ReadBack(answer.out, me.metric_id)
           new_value == FloatOfValue(me.value).v
           warning == WarningFor(rb.st.current_value, new_value,
                                 rb.st.metric_name, me.metric_id)
           log1 == IF rb.logged THEN Append(me.log, ReadBackFailedLine(Len(me.reqs)))
                   ELSE me.log
           log2 == IF warning.set THEN Append(log1, DecreaseLine(warning, Len(me.reqs)))
                   ELSE log1
           payload == Payload(me.value, me.comment)
       IN  ukr' = [ukr EXCEPT ![p] =
              IF rb.raised # "none"
              THEN [me EXCEPT !.pc = "raised", !.err = rb.raised, !.rb = answer.class,
                              !.at_read = Some(answer.seen)]
              ELSE [me EXCEPT !.pc = "putting", !.rb = answer.class,
                              !.at_read = Some(answer.seen),
                              !.current_value = rb.st.current_value,
                              !.metric_name = rb.st.metric_name,
                              !.warning = warning, !.log = log2,
                              !.reqs = Append(me.reqs,
                                  Request("PUT", <<"metric", me.metric_id>>, payload))]]
    /\ UNCHANGED <<backend, applied, gmo, wb, lst, fx>>

\* What happens to the PUT: applied and answered; refused or failed before it
\* is applied (the request raises); applied, but the answer is lost (a timeout
\* or an unreadable body: the request raises).
PutOutcomes ==
    {[kind |-> "ok", applied |-> TRUE, exc |-> "none"]}
    \cup {[kind |-> "error", applied |-> FALSE, exc |-> e] : e \in TransportRaises}
    \cup {[kind |-> "lost_reply", applied |-> TRUE, exc |-> "WorkBoardApiError"]}

\* UkrPut with a compare-and-swap: the write goes through only while the backend
\* still holds the value this invocation read.
UkrPutCas(p, outcome) ==
    /\ ukr[p].pc = "putting"
    /\ ukr[p].at_read = Some(backend[ukr[p].metric_id])
    /\ outcome.applied => FloatOfValue(ukr[p].value).v.k = "num"
    /\ LET me == ukr[p]
           id == me.metric_id
           new == FloatOfValue(me.value).v.n
           response == [metric_id |-> id, metric_achieve_target |-> new]
           seen == [me EXCEPT !.at_put = Some(backend[id])]
       IN  /\ backend' = IF outcome.applied THEN [backend EXCEPT ![id] = new] ELSE backend
           /\ applied' = IF outcome.applied THEN Append(applied, <<p, new>>) ELSE applied
           /\ ukr' = [ukr EXCEPT ![p] =
                IF outcome.kind = "ok"
                THEN [seen EXCEPT !.pc = "returned",
                                  !.log = Append(me.log, UpdatedLine(id, me.value, me.comment,
                                                                 Len(me.reqs))),
                                  !.result = [keys |-> {"key_result"} \cup
                                                 (IF me.warning.set THEN {"warning"} ELSE {}),
                                              key_result |-> response,
                                              warning |-> me.warning]]
                ELSE [seen EXCEPT !.pc = "raised", !.err = outcome.exc]]
    /\ UNCHANGED <<gmo, wb, lst, fx>>

\* UkrPut with one automatic retry: a PUT that fails is issued a second time.
UkrPutRetry(p, outcome) ==
    /\ ukr[p].pc = "putting"
    /\ outcome.applied => FloatOfValue(ukr[p].value).v.k = "num"
    /\ LET me == ukr[p]
           id == me.metric_id
           new == FloatOfValue(me.value).v.n
           response == [metric_id |-> id, metric_achieve_target |-> new]
           seen == [me EXCEPT !.at_put = Some(backend[id])]
       IN  /\ backend' = IF outcome.applied THEN [backend EXCEPT ![id] = new] ELSE backend
           /\ applied' = IF outcome.applied THEN Append(applied, <<p, new>>) ELSE applied
           /\ ukr' = [ukr EXCEPT ![p] =
                IF outcome.kind = "ok"
                THEN [seen EXCEPT !.pc = "returned",
                                  !.log = Append(me.log, UpdatedLine(id, me.value, me.comment,
                                                                 Len(me.reqs))),
                                  !.result = [keys |-> {"key_result"} \cup
                                                 (IF me.warning.set THEN {"warning"} ELSE {}),
                                              key_result |-> response,
                                              warning |-> me.warning]]
                ELSE IF Len(me.reqs) < 3
                     THEN [seen EXCEPT !.reqs = Append(me.reqs, me.reqs[Len(me.reqs)])]
                     ELSE [seen EXCEPT !.pc = "raised", !.err = outcome.exc]]
    /\ UNCHANGED <<gmo, wb, lst, fx>>

\* UkrPut writing the audit line before the outcome of the PUT is known.
UkrPutAuditFirst(p, outcome) ==
    /\ ukr[p].pc = "putting"
    /\ outcome.applied => FloatOfValue(ukr[p].value).v.k = "num"
    /\ LET me == ukr[p]
           id == me.metric_id
           new == FloatOfValue(me.value).v.n
           response == [metric_id |-> id, metric_achieve_target |-> new]
           seen == [me EXCEPT !.at_put = Some(backend[id]),
                              !.log = Append(me.log, UpdatedLine(id, me.value, me.comment,
                                                                 Len(me.reqs)))]
       IN  /\ backend' = IF outcome.applied THEN [backend EXCEPT ![id] = new] ELSE backend
           /\ applied' = IF outcome.applied THEN Append(applied, <<p, new>>) ELSE applied
           /\ ukr' = [ukr EXCEPT ![p] =
                IF outcome.kind = "ok"
                THEN [seen EXCEPT !.pc = "returned",
                                  !.result = [keys |-> {"key_result"} \cup
                                                 (IF me.warning.set THEN {"warning"} ELSE {}),
                                              key_result |-> response,
                                              warning |-> me.warning]]
                ELSE [seen EXCEPT !.pc = "raised", !.err = outcome.exc]]
    /\ UNCHANGED <<gmo, wb, lst, fx>>

\* Lines 402-414: the PUT is served; on success the audit line is written and
\* the result returned, otherwise the error of the request propagates.
UkrPut(p, outcome) ==
    /\ ukr[p].pc = "putting"
    /\ outcome.applied => FloatOfValue(ukr[p].value).v.k = "num"
    /\ LET me == ukr[p]
           id == me.metric_id
           new == FloatOfValue(me.value).v.n
           response == [metric_id |-> id, metric_achieve_target |-> new]
           seen == [me EXCEPT !.at_put = Some(backend[id])]
       IN  /\ backend' = IF outcome.applied THEN [backend EXCEPT ![id] = new] ELSE backend
           /\ applied' = IF outcome.applied THEN Append(applied, <<p, new>>) ELSE applied
           /\ ukr' = [ukr EXCEPT ![p] =
                IF outcome.kind = "ok"
                THEN [seen EXCEPT !.pc = "returned",
                                  !.log = Append(me.log, UpdatedLine(id, me.value, me.comment,
                                                                 Len(me.reqs))),
                                  !.result = [keys |-> {"key_result"} \cup
                                                 (IF me.warning.set THEN {"warning"} ELSE {}),
                                              key_result |-> response,
                                              warning |-> me.warning]]
                ELSE [seen EXCEPT !.pc = "raised", !.err = outcome.exc]]
    /\ UNCHANGED <<gmo, wb, lst, fx>>

\* ------------------------------------------------------ get_my_objectives

\* First calendar second of the current year, on the model's clock.
YearStart == 2
\* Largest objective id, longest explicit id list, longest metric collection.
MaxGoalId == 2
MaxIds == 2
MaxMetrics == 3

UserIds == {7}
GoalIds == 1..MaxGoalId
BadIds == {-1, 0}

_current_year_start == YearStart
\* First second of the year after: the model's year lasts one tick.
NextYearStart == YearStart + 1

\* The ids in descending order.
RECURSIVE SortedDescending(_)
SortedDescending(S) ==
    IF S = {} THEN <<>>
    ELSE LET m == CHOOSE x \in S : \A y \in S : x >= y
         IN  <<m>> \o SortedDescending(S \ {m})

\* Line 247: sorted(goal_ids), the ids of a set in ascending order.
RECURSIVE SortedSeq(_)
SortedSeq(S) ==
    IF S = {} THEN <<>>
    ELSE LET m == CHOOSE x \in S : \A y \in S : x <= y
         IN  <<m>> \o SortedSeq(S \ {m})

\* Line 231-234: the year filter; a conversion that raises ends the discovery.
RECURSIVE YearFilter(_)
YearFilter(items) ==
    IF items = <<>> THEN Ok(<<>>)
    ELSE LET m == Head(items) IN
         IF m.t # "dict" THEN Exc("AttributeError")
         ELSE LET ts == PyInt(OrZero(m.target_date))
                  rest == YearFilter(Tail(items))
              IN  IF ~ts.ok THEN Exc(ts.exc)
                  ELSE IF ~rest.ok THEN rest
                  ELSE IF ts.v >= _current_year_start THEN Ok(<<m>> \o rest.v)
                  ELSE rest

\* Lines 237-245: the parent ids of the filtered metrics; an id that is None or
\* does not convert is passed over.
RECURSIVE ParentIds(_)
ParentIds(items) ==
    IF items = <<>> THEN {}
    ELSE LET gid == Head(items).metric_goal_id
             rest == ParentIds(Tail(items))
         IN  IF gid \in {JAbsent, JNull} THEN rest
             ELSE IF PyInt(gid).ok THEN {PyInt(gid).v} \cup rest
             ELSE rest

\* _get_objective_ids_from_metrics on the parsed body of GET /metric.
ObjectiveIdsFromMetrics(body) ==
    IF body.top # "dict" THEN Exc("AttributeError")
    ELSE LET data == body.data
             metrics == IF data # JAbsent /\ data.t = "dict" THEN data.metric ELSE JAbsent
         IN  CASE metrics = JAbsent -> Ok(<<>>)
               [] metrics = JNull -> Exc("TypeError")
               [] metrics.t = "dict_nonempty" -> Exc("AttributeError")
               [] OTHER ->
                    LET kept == YearFilter(metrics.items) IN
                    IF ~kept.ok THEN kept ELSE Ok(SortedSeq(ParentIds(kept.v)))

\* int(user_response["data"]["user"]["user_id"])
UserIdOf(body) ==
    IF body.top # "dict" THEN Exc("TypeError")
    ELSE LET data == body.data IN
         IF data = JAbsent THEN Exc("KeyError")
         ELSE IF data.t # "dict" THEN Exc("TypeError")
         ELSE IF data.user = JAbsent THEN Exc("KeyError")
         ELSE IF data.user.t # "dict" THEN Exc("TypeError")
         ELSE IF data.user.user_id = JAbsent THEN Exc("KeyError")
         ELSE PyInt(data.user.user_id)

\* except (KeyError, TypeError, ValueError)
UserIdCaught == {"KeyError", "TypeError", "ValueError"}

\* detail.get("data", {}).get("user", {}).get("goal", {})
GoalOf(body) ==
    IF body.top # "dict" THEN Exc("AttributeError")
    ELSE LET data == body.data IN
         IF data = JAbsent THEN Ok(EmptyDict)
         ELSE IF data.t # "dict" THEN Exc("AttributeError")
         ELSE IF data.user = JAbsent THEN Ok(EmptyDict)
         ELSE IF data.user.t # "dict" THEN Exc("AttributeError")
         ELSE Ok(DictGet(data.user.goal, EmptyDict))

\* --- the formatters

\* The last second datetime.fromtimestamp can turn into a date (the end of the
\* year 9999), on the model's clock.
LastTimestamp == NextYearStart + 1

\* The date string of a timestamp, and the empty string.
DateStr(ts) == [t |-> "date", ts |-> ts]

\* except (ValueError, TypeError)
ConversionCaught == {"ValueError", "TypeError"}

\* Lines 27-37: _format_date.
_format_date(timestamp) ==
    IF timestamp \in {JAbsent, JNull} THEN Ok(JEmpty)
    ELSE LET ts == PyInt(timestamp) IN
         IF ~ts.ok THEN (IF ts.exc \in ConversionCaught THEN Ok(JEmpty) ELSE ts)
         ELSE IF ts.v <= 0 THEN Ok(JEmpty)
         ELSE IF ts.v > LastTimestamp THEN Exc("ValueError")
         ELSE Ok(DateStr(ts.v))

\* Lines 45-52: float(x or 0) under except (ValueError, TypeError).
FloatOrZero(j) ==
    LET f == PyFloat(OrZero(j)) IN
    IF f.ok THEN f.v ELSE F(0)

\* Lines 54-59: the progress string, with int(achieved) and int(target).
ProgressStr(unit_name, achieved, target) ==
    LET a == IntOfFloat(achieved)
        g == IntOfFloat(target)
    IN  IF ~a.ok THEN a
        ELSE IF ~g.ok THEN g
        ELSE Ok([style |-> CASE unit_name = JName("Currency") -> "currency"
                             [] unit_name = JName("Number") -> "number"
                             [] OTHER -> "percent",
                 achieved |-> a.v, target |-> g.v])

\* Lines 69-75: last_updated, None when the metric was never checked in.
LastUpdated(raw) ==
    LET ts == PyInt(OrZero(raw)) IN
    IF ~ts.ok THEN (IF ts.exc \in ConversionCaught THEN Ok(JNull) ELSE ts)
    ELSE IF ts.v > 0 THEN _format_date(JNum(ts.v))
    ELSE Ok(JNull)

\* Lines 40-77: _format_metric.
_format_metric(metric) ==
    IF ~IsDict(metric) THEN Exc("AttributeError")
    ELSE LET unit == DictGet(Field(metric, "metric_unit"), EmptyDict)
             unit_name == IF IsDict(unit) THEN DictGet(Field(unit, "name"), JEmpty) ELSE JEmpty
             progress == ProgressStr(unit_name,
                                     FloatOrZero(Field(metric, "metric_achieve_target")),
                                     FloatOrZero(Field(metric, "metric_target")))
             id == PyInt(DictGet(Field(metric, "metric_id"), JNum(0)))
             target_date == _format_date(Field(metric, "target_date"))
             last_updated == LastUpdated(Field(metric, "metric_last_update"))
         IN  IF ~progress.ok THEN progress
             ELSE IF ~id.ok THEN id
             ELSE IF ~target_date.ok THEN target_date
             ELSE IF ~last_updated.ok THEN last_updated
             ELSE Ok([metric_id |-> id.v,
                      name |-> DictGet(Field(metric, "metric_name"), JEmpty),
                      progress |-> progress.v, target_date |-> target_date.v,
                      last_updated |-> last_updated.v])

RECURSIVE FormatMetrics(_)
FormatMetrics(items) ==
    IF items = <<>> THEN Ok(<<>>)
    ELSE LET h == _format_metric(Head(items)) IN
         IF ~h.ok THEN h
         ELSE LET rest == FormatMetrics(Tail(items)) IN
              IF ~rest.ok THEN rest ELSE Ok(<<h.v>> \o rest.v)

\* Lines 82-85: int(float(goal.get("goal_progress") or 0)) under
\* except (ValueError, TypeError).
GoalProgress(j) ==
    LET f == PyFloat(OrZero(j))
        n == IntOfFloat(f.v)
    IN  IF ~f.ok THEN Ok(0)
        ELSE IF n.ok THEN n
        ELSE IF n.exc \in ConversionCaught THEN Ok(0)
        ELSE n

\* Lines 106-108: key_results, when goal_metrics is truthy: the formatted items
\* of a list; iterating over a non-empty object or string gives its keys or
\* characters to _format_metric, and a number cannot be iterated over.
KeyResults(metrics) ==
    CASE metrics.t = "list" /\ "items" \in DOMAIN metrics -> FormatMetrics(metrics.items)
      [] metrics.t = "map" /\ metrics.entries = <<>> -> Ok(<<>>)
      [] metrics.t \in {"list", "dict_nonempty", "map", "goal", "dict", "text", "name", "numstr"} ->
            Exc("AttributeError")
      [] metrics.t \in {"inf"} \/ (metrics.t = "num" /\ metrics.v # 0) -> Exc("TypeError")
      [] OTHER -> Ok(<<>>)

\* Lines 80-110: _format_goal. A key the result does not hold is JAbsent;
\* key_results is empty when the result has none.
_format_goal(goal) ==
    IF ~IsDict(goal) THEN Exc("AttributeError")
    ELSE LET progress == GoalProgress(Field(goal, "goal_progress"))
             owner == Field(goal, "goal_owner_full_name")
             team == Field(goal, "goal_team_name")
             start == _format_date(Field(goal, "goal_start_date"))
             target == _format_date(Field(goal, "goal_target_date"))
             krs == KeyResults(DictGet(Field(goal, "goal_metrics"), MetricItems(<<>>)))
         IN  IF ~progress.ok THEN progress
             ELSE IF ~start.ok THEN start
             ELSE IF ~target.ok THEN target
             ELSE IF ~krs.ok THEN krs
             ELSE Ok([t |-> "formatted",
                      objective_id |-> DictGet(Field(goal, "goal_id"), JNull),
                      name |-> DictGet(Field(goal, "goal_name"), JEmpty),
                      progress |-> progress.v,
                      owner |-> IF Truthy(owner) THEN owner ELSE JAbsent,
                      team |-> IF Truthy(team) THEN team ELSE JAbsent,
                      dates |-> IF start.v # JEmpty /\ target.v # JEmpty
                                THEN [start |-> start.v, target |-> target.v] ELSE JAbsent,
                      key_results |-> krs.v])

Raw(body) == [t |-> "raw", body |-> body]

NotAccessible == "Not accessible (may be archived or from a prior year)"
NoObjectivesMessage == "No objectives found. No current-year key results were found that link to objectives. You can provide objective IDs explicitly."
NoUserIdError == "Could not determine current user ID"

NoIds == [given |-> FALSE, ids |-> <<>>]
Ids(ids) == [given |-> TRUE, ids |-> ids]

NoResult == [keys |-> {}, objectives |-> <<>>, skipped |-> <<>>, text |-> ""]

IdleGmo ==
    [pc |-> "idle", ids_in |-> NoIds, user_class |-> "none", user_id |-> 0,
     metrics_class |-> "none", parents |-> {}, current_parents |-> {}, listed |-> <<>>, objective_ids |-> <<>>, idx |-> 1,
     objectives |-> <<>>, skipped |-> <<>>, fetched |-> <<>>, reqs |-> <<>>,
     result |-> NoResult, err |-> "none", raised_at |-> "none"]

\* --- what the backend may answer

UserAnswers ==
    {[class |-> "parsed", out |-> Body(Envelope(DataUser(UserNode(e, JAbsent))))] :
        e \in UNION {{JNum(u), JStr(u)} : u \in UserIds}}
    \cup {[class |-> "unparseable", out |-> Body(b)] :
            b \in {TopList, Envelope(JAbsent), Envelope(JNull), Envelope(JList),
                   Envelope(DataUser(JAbsent)), Envelope(DataUser(JNull)),
                   Envelope(DataUser(JList)),
                   Envelope(DataUser(UserNode(JAbsent, JAbsent))),
                   Envelope(DataUser(UserNode(JNull, JAbsent))),
                   Envelope(DataUser(UserNode(JText, JAbsent))),
                   Envelope(DataUser(UserNode(JEmpty, JAbsent)))}}
    \cup {[class |-> "nonfinite", out |-> Body(Envelope(DataUser(UserNode(JInf, JAbsent))))]}
    \cup {[class |-> "raise", out |-> Raised(e)] : e \in TransportRaises}

\* A metric of the collection and the parent it stands for: the parent id when
\* the target date lies in the current year and the reference is a number.
ParentEncodings ==
    {[enc |-> e, ids |-> {}, seq |-> <<>>] : e \in {JNull, JText}}
    \cup {[enc |-> JNum(g), ids |-> {g}, seq |-> <<g>>] : g \in BadIds \cup GoalIds}
    \cup {[enc |-> JStr(g), ids |-> {g}, seq |-> <<g>>] : g \in GoalIds}

\* A target date as the backend sends it: whether it lies on or after the
\* first second of the current year (now), and in which year it lies.
DateEncodings ==
    {[enc |-> JAbsent, now |-> FALSE, year |-> "none"],
     [enc |-> JNum(YearStart - 1), now |-> FALSE, year |-> "past"],
     [enc |-> JNum(YearStart), now |-> TRUE, year |-> "current"],
     [enc |-> JStr(YearStart), now |-> TRUE, year |-> "current"],
     [enc |-> JStr(NextYearStart), now |-> TRUE, year |-> "later"]}

\* The dated references a collection is built from: every reference on a
\* current-year date, every valid id on a past and on a later date, string ids
\* on a string date, and one reference without a date.
DatedParents ==
    {<<d, g>> \in DateEncodings \X ParentEncodings :
        \/ d.enc = JNum(YearStart) /\ g.enc \notin {JStr(x) : x \in GoalIds}
        \/ d.enc = JStr(YearStart) /\ g.enc \in {JStr(x) : x \in GoalIds}
        \/ d.year \in {"past", "later"} /\ g.enc \in {JNum(x) : x \in GoalIds}
        \/ d.year = "none" /\ g.enc = JNum(1)}

DiscoveryItems ==
    {[rec |-> MetricRec(JNum(1), JAbsent, JAbsent, dg[1].enc, dg[2].enc),
      parents |-> IF dg[1].now THEN dg[2].ids ELSE {},
      listed |-> IF dg[1].now THEN dg[2].seq ELSE <<>>,
      current |-> IF dg[1].year = "current" THEN dg[2].ids ELSE {}, wellformed |-> TRUE] :
        dg \in DatedParents}
    \cup {[rec |-> MetricRec(JNum(1), JAbsent, JAbsent, JText, JNum(1)),
           parents |-> {}, listed |-> <<>>, current |-> {}, wellformed |-> FALSE],
          [rec |-> JNull, parents |-> {}, listed |-> <<>>, current |-> {}, wellformed |-> FALSE]}

RECURSIVE SeqsUpTo(_, _)
SeqsUpTo(S, n) ==
    IF n = 0 THEN {<<>>}
    ELSE LET shorter == SeqsUpTo(S, n - 1)
         IN  shorter \cup {Append(q, x) : q \in {r \in shorter : Len(r) = n - 1}, x \in S}

RecsOf(items) == [i \in 1..Len(items) |-> items[i].rec]
ParentsOf(items) == UNION {items[i].parents : i \in 1..Len(items)}
CurrentParentsOf(items) == UNION {items[i].current : i \in 1..Len(items)}
\* The parent references in the order, and as often as, the collection lists them.
RECURSIVE ListedOf(_)
ListedOf(items) ==
    IF items = <<>> THEN <<>> ELSE Head(items).listed \o ListedOf(Tail(items))
AllWellFormed(items) == \A i \in 1..Len(items) : items[i].wellformed

\* Every answer to the discovery's GET /metric: a collection (with the parents
\* it stands for), a body without a collection, or a failed request.
DiscoveryAnswers ==
    {[class |-> IF AllWellFormed(items) THEN "listing" ELSE "malformed",
      parents |-> ParentsOf(items), current_parents |-> CurrentParentsOf(items),
      listed |-> ListedOf(items),
      out |-> Listing(RecsOf(items))] :
        items \in SeqsUpTo(DiscoveryItems, MaxMetrics)}
    \cup {[class |-> "shape", parents |-> {}, current_parents |-> {}, listed |-> <<>>, out |-> Body(b)] :
            b \in {TopList, Envelope(JAbsent), Envelope(JNull), Envelope(JList),
                   Envelope(DataDict(JAbsent)), Envelope(DataDict(JNull)),
                   Envelope(DataDict(MetricDictNode))}}
    \cup {[class |-> "raise", parents |-> {}, current_parents |-> {}, listed |-> <<>>,
           out |-> Raised(e)] :
            e \in TransportRaises}

GoodMetric == MetricRec(JNum(1), JStr(1), JName("Revenue"), JAbsent, JAbsent)

\* Every answer to GET /user/{id}/goal/{oid}: the objective, a success body of
\* another shape, or a failed request.
DetailAnswers(oid) ==
    {[class |-> "goal", out |-> Body(Envelope(DataUser(UserNode(JAbsent, GoalRec(JNum(oid), n, ms)))))] :
        <<n, ms>> \in {<<JName("My OKR"), MetricItems(<<GoodMetric>>)>>,
                       <<JName("My OKR"), MetricItems(<<>>)>>,
                       <<JAbsent, JAbsent>>}}
    \cup {[class |-> "shape", out |-> Body(b)] :
            b \in {TopList, Envelope(JAbsent), Envelope(JNull), Envelope(JList),
                   Envelope(DataUser(JNull)),
                   Envelope(DataUser(UserNode(JAbsent, JNull))),
                   Envelope(DataUser(UserNode(JAbsent, EmptyDict))),
                   Envelope(DataUser(UserNode(JAbsent,
                       GoalRec(JNum(oid), JName("My OKR"), MetricItems(<<JNull>>)))))}}
    \cup {[class |-> e, out |-> Raised(e)] : e \in TransportRaises}

\* --- the steps of the invocation

DetailRequest(user_id, oid) == Request("GET", <<"user", user_id, "goal", oid>>, NoBody)
ListRequest(user_id) == Request("GET", <<"user", user_id, "goal">>, NoBody)

Return(me, keys, text) ==
    [me EXCEPT !.pc = "returned",
               !.result = [keys |-> keys, objectives |-> me.objectives,
                           skipped |-> me.skipped, text |-> text]]

Raise(me, exc, at) == [me EXCEPT !.pc = "raised", !.err = exc, !.raised_at = at]

\* Lines 291-294 and 306-309: the head of the loop. With ids left, the next one
\* is validated (a raise leaves the function) and its detail request issued;
\* with none left the result is built and returned.
FetchNext(me) ==
    IF me.idx > Len(me.objective_ids)
    THEN Return(me, {"objectives"} \cup (IF me.skipped # <<>> THEN {"skipped"} ELSE {}), "")
    ELSE LET v == validate_objective_id(me.objective_ids[me.idx]) IN
         IF ~v.ok THEN Raise(me, v.exc, "validate")
         ELSE [me EXCEPT !.pc = "await_detail",
                         !.reqs = Append(me.reqs, DetailRequest(me.user_id, v.v))]

\* Discovery that falls back on the capped list endpoint when it finds no id.
DiscoveryEmptyFallback(me) ==
    [me EXCEPT !.pc = "await_list", !.reqs = Append(me.reqs, ListRequest(me.user_id))]

\* Lines 279-286: discovery found no id.
DiscoveryEmpty(me) ==
    Return([me EXCEPT !.objectives = <<>>, !.skipped = <<>>],
           {"objectives", "message"}, NoObjectivesMessage)

\* Lines 266-270: get_client() and the GET /user are issued.
GmoCall(ids_in) ==
    /\ gmo.pc = "idle"
    /\ gmo' = [gmo EXCEPT !.pc = "await_user", !.ids_in = ids_in,
                          !.reqs = <<Request("GET", <<"user">>, NoBody)>>]
    /\ UNCHANGED <<ukr, backend, applied, wb, lst, fx>>

\* GmoUser testing "if not objective_ids": an empty list starts discovery too.
GmoUserFalsy(answer) ==
    /\ gmo.pc = "await_user"
    /\ LET me == [gmo EXCEPT !.user_class = answer.class]
           uid == UserIdOf(answer.out.body)
       IN  gmo' =
             IF answer.out.kind = "raise" THEN Raise(me, answer.out.exc, "user")
             ELSE IF ~uid.ok
                  THEN IF uid.exc \in UserIdCaught
                       THEN Return(me, {"error"}, NoUserIdError)
                       ELSE Raise(me, uid.exc, "user")
             ELSE IF ~me.ids_in.given \/ me.ids_in.ids = <<>>
                  THEN [me EXCEPT !.pc = "await_metrics", !.user_id = uid.v,
                                  !.reqs = Append(me.reqs, Request("GET", <<"metric">>, NoBody))]
                  ELSE FetchNext([me EXCEPT !.user_id = uid.v,
                                            !.objective_ids = me.ids_in.ids])
    /\ UNCHANGED <<ukr, backend, applied, wb, lst, fx>>

\* Lines 270-294: the answer to GET /user arrives. The user id is parsed; then
\* either the discovery's GET /metric is issued or the loop over the explicit
\* ids starts.
GmoUser(answer) ==
    /\ gmo.pc = "await_user"
    /\ LET me == [gmo EXCEPT !.user_class = answer.class]
           uid == UserIdOf(answer.out.body)
       IN  gmo' =
             IF answer.out.kind = "raise" THEN Raise(me, answer.out.exc, "user")
             ELSE IF ~uid.ok
                  THEN IF uid.exc \in UserIdCaught
                       THEN Return(me, {"error"}, NoUserIdError)
                       ELSE Raise(me, uid.exc, "user")
             ELSE IF ~me.ids_in.given
                  THEN [me EXCEPT !.pc = "await_metrics", !.user_id = uid.v,
                                  !.reqs = Append(me.reqs, Request("GET", <<"metric">>, NoBody))]
                  ELSE FetchNext([me EXCEPT !.user_id = uid.v,
                                            !.objective_ids = me.ids_in.ids])
    /\ UNCHANGED <<ukr, backend, applied, wb, lst, fx>>

\* Lines 224-247 and 278-294: the answer to the discovery's GET /metric
\* arrives; the ids are derived and the loop over them starts.
GmoMetrics(answer) ==
    /\ gmo.pc = "await_metrics"
    /\ LET me == [gmo EXCEPT !.metrics_class = answer.class,
                             !.parents = answer.parents,
                             !.current_parents = answer.current_parents,
                             !.listed = answer.listed]
           ids == ObjectiveIdsFromMetrics(answer.out.body)
       IN  gmo' =
             IF answer.out.kind = "raise" THEN Raise(me, answer.out.exc, "metrics")
             ELSE IF ~ids.ok THEN Raise(me, ids.exc, "metrics")
             ELSE IF ids.v = <<>> THEN DiscoveryEmpty(me)
             ELSE FetchNext([me EXCEPT !.objective_ids = ids.v])
    /\ UNCHANGED <<ukr, backend, applied, wb, lst, fx>>

\* The except clause of the loop, catching nothing.
CatchesNothing(e) == FALSE

\* Line 300: except UserError
Catches(e) == IsUserError(e)

\* Lines 294-304 and the next turn of the loop: the answer to a detail request
\* arrives; the objective is formatted and kept, or the raw body kept, or the
\* id skipped; an exception that is no UserError leaves the function.
GmoDetail(answer) ==
    /\ gmo.pc = "await_detail"
    /\ LET me == gmo
           oid == me.objective_ids[me.idx]
           note(into) == Append(me.fetched, [oid |-> oid, class |-> answer.class, into |-> into])
           goal == GoalOf(answer.out.body)
           formatted == _format_goal(goal.v)
           exc == IF answer.out.kind = "raise" THEN answer.out.exc
                  ELSE IF ~goal.ok THEN goal.exc
                  ELSE IF goal.v.t = "goal" /\ ~formatted.ok THEN formatted.exc
                  ELSE "none"
       IN  gmo' =
             IF exc # "none"
             THEN IF Catches(exc)
                  THEN FetchNext([me EXCEPT
                          !.skipped = Append(me.skipped,
                              [objective_id |-> oid, error |-> NotAccessible]),
                          !.fetched = note("skipped"), !.idx = me.idx + 1])
                  ELSE Raise([me EXCEPT !.fetched = note("raised")], exc, "detail")
             ELSE FetchNext([me EXCEPT
                     !.objectives = Append(me.objectives,
                         IF goal.v.t = "goal" THEN formatted.v ELSE Raw(answer.out.body)),
                     !.fetched = note("objectives"), !.idx = me.idx + 1])
    /\ UNCHANGED <<ukr, backend, applied, wb, lst, fx>>

IdInputsGmo == {NoIds} \cup {Ids(q) : q \in SeqsUpTo(BadIds \cup GoalIds, MaxIds)}

NextGMO ==
    \/ /\ gmo.pc = "idle"
       /\ \E ids \in IdInputsGmo : GmoCall(ids)
    \/ /\ gmo.pc = "await_user"
       /\ \E ans \in UserAnswers : GmoUser(ans)
    \/ /\ gmo.pc = "await_metrics"
       /\ \E ans \in DiscoveryAnswers : GmoMetrics(ans)
    \/ /\ gmo.pc = "await_detail"
       /\ \E ans \in DetailAnswers(gmo.objective_ids[gmo.idx]) : GmoDetail(ans)

\* --------------------------------------------------------- get_objectives

\* Largest reported total, and most entries of a goal collection.
MaxTotal == 5
MaxEntries == 3

\* Characters of a mapping key: ASCII digits, a digit of another kind (the
\* superscript two U+00B2, for which str.isdigit() is true); any other
\* character is a letter.
AsciiDigits == {"0", "1"}
OtherDigits == {"sup2"}

\* The key "goal_count", written by its first letter.
CountKey == <<"g">>

\* str.isdigit(): the string is not empty and every character is a digit.
IsDigit(key) ==
    key # <<>> /\ \A i \in 1..Len(key) : key[i] \in AsciiDigits \cup OtherDigits

\* The data node of the list endpoint, and the goal node as a mapping of
\* entries (in iteration order) or as an array.
ListData(goal_count, user) == [t |-> "dict", goal_count |-> goal_count, user |-> user]
Entry(key, value) == [key |-> key, value |-> value]
GoalMap(entries) == [t |-> "map", entries |-> entries]
GoalList(items) == [t |-> "list", items |-> items]

\* The values of the entries, in order.
RECURSIVE ValuesOf(_)
ValuesOf(entries) ==
    IF entries = <<>> THEN <<>> ELSE <<Head(entries).value>> \o ValuesOf(Tail(entries))

Pair(items, total) == [items |-> items, total |-> total]

\* Lines 113-145: _extract_goals_from_response.
_extract_goals_from_response(body) ==
    IF body.top # "dict" THEN Exc("AttributeError")
    ELSE LET data == DictGet(body.data, EmptyDict) IN
         IF ~IsDict(data) THEN Ok(Pair(<<>>, JNum(0)))
         ELSE LET goal_count == DictGet(Field(data, "goal_count"), JNum(0))
                  user_data == DictGet(Field(data, "user"), EmptyDict)
              IN  IF ~IsDict(user_data) THEN Ok(Pair(<<>>, goal_count))
                  ELSE LET goals_obj == DictGet(Field(user_data, "goal"), EmptyDict) IN
                       CASE goals_obj.t = "map" ->
                              Ok(Pair(ValuesOf(SelectSeq(goals_obj.entries,
                                         LAMBDA e : IsDigit(e.key) /\ IsDict(e.value))),
                                      goal_count))
                         [] goals_obj.t = "list" -> Ok(Pair(goals_obj.items, goal_count))
                         [] OTHER -> Ok(Pair(<<>>, goal_count))

\* Line 178: [_format_goal(g) for g in goals]
RECURSIVE FormatGoals(_)
FormatGoals(items) ==
    IF items = <<>> THEN Ok(<<>>)
    ELSE LET g == Head(items)
             h == IF g.t = "goal" THEN _format_goal(g) ELSE Exc("AttributeError")
         IN  IF ~h.ok THEN h
             ELSE LET rest == FormatGoals(Tail(items)) IN
                  IF ~rest.ok THEN rest ELSE Ok(<<h.v>> \o rest.v)

\* goal_count > len(goals): defined between numbers only.
CountExceeds(goal_count, n) ==
    CASE goal_count.t = "num" -> Ok(goal_count.v > n)
      [] goal_count.t = "inf" -> Ok(TRUE)
      [] OTHER -> Exc("TypeError")

\* The warning of lines 180-183: both counts.
CapWarning(shown, total) == [set |-> TRUE, shown |-> shown, total |-> total]

IdleLst ==
    [pc |-> "idle", user_id |-> 0, reqs |-> <<>>, class |-> "none", body |-> TopList,
     norm |-> Exc("none"), result |-> [keys |-> {}, objectives |-> <<>>, warning |-> NoWarning],
     err |-> "none"]

GoalA == GoalRec(JNum(1), JName("Ship v1"), MetricItems(<<>>))
GoalB == GoalRec(JNum(2), JName("My OKR"), JAbsent)

\* Entries a goal mapping is built from, and the mappings: no key twice.
MapEntries ==
    {Entry(<<"0">>, GoalA), Entry(<<"1">>, GoalB), Entry(<<"0">>, JText),
     Entry(<<"sup2">>, GoalB), Entry(<<"n">>, GoalA), Entry(CountKey, JNum(MaxTotal))}

GoalMaps ==
    {GoalMap(q) : q \in {r \in SeqsUpTo(MapEntries, MaxEntries) :
                            \A i, j \in 1..Len(r) : i # j => r[i].key # r[j].key}}

GoalLists == {GoalList(q) : q \in SeqsUpTo({GoalA, GoalB, JNull}, MaxEntries)}

SiblingCounts == {JAbsent, JNull, JStr(MaxTotal)} \cup {JNum(n) : n \in 0..MaxTotal}

\* Every answer to GET /user/{id}/goal: a success body with the shapes of its
\* data, user, goal and goal_count nodes, or a failed request.
ListAnswers ==
    {[class |-> "body", out |-> Body(Envelope(ListData(c, UserNode(JAbsent, g))))] :
        c \in SiblingCounts, g \in {JAbsent, JNull, JText, JNum(1)} \cup GoalMaps \cup GoalLists}
    \cup {[class |-> "body", out |-> Body(Envelope(ListData(c, u)))] :
            c \in SiblingCounts, u \in {JAbsent, JNull, JList, JText}}
    \cup {[class |-> "body", out |-> Body(Envelope(n))] : n \in {JAbsent, JNull, JList, JText}}
    \cup {[class |-> "toplist", out |-> Body(TopList)]}
    \cup {[class |-> "raise", out |-> Raised(e)] : e \in TransportRaises}

\* Lines 172-175: the user id is validated, then the list request is issued.
GoCall(user_id) ==
    /\ lst.pc = "idle"
    /\ LET v == validate_user_id(user_id) IN
       lst' = IF ~v.ok THEN [lst EXCEPT !.pc = "raised", !.err = v.exc, !.user_id = user_id]
              ELSE [lst EXCEPT !.pc = "await_list", !.user_id = v.v,
                               !.reqs = <<ListRequest(v.v)>>]
    /\ UNCHANGED <<ukr, backend, applied, gmo, wb, fx>>

\* Lines 175-184: the answer arrives; it is normalized, the goals are
\* formatted, the counts compared and the result returned.
GoAnswer(answer) ==
    /\ lst.pc = "await_list"
    /\ LET me == [lst EXCEPT !.class = answer.class]
           norm == _extract_goals_from_response(answer.out.body)
           seen == [me EXCEPT !.body = answer.out.body, !.norm = norm]
           formatted == FormatGoals(norm.v.items)
           more == CountExceeds(norm.v.total, Len(norm.v.items))
       IN  lst' =
             IF answer.out.kind = "raise" THEN [me EXCEPT !.pc = "raised", !.err = answer.out.exc]
             ELSE IF ~norm.ok THEN [seen EXCEPT !.pc = "raised", !.err = norm.exc]
             ELSE IF ~formatted.ok THEN [seen EXCEPT !.pc = "raised", !.err = formatted.exc]
             ELSE IF ~more.ok THEN [seen EXCEPT !.pc = "raised", !.err = more.exc]
             ELSE [seen EXCEPT !.pc = "returned",
                     !.result = [keys |-> {"objectives"} \cup
                                            (IF more.v THEN {"warning"} ELSE {}),
                                 objectives |-> formatted.v,
                                 warning |-> IF more.v
                                             THEN CapWarning(Len(norm.v.items), norm.v.total)
                                             ELSE NoWarning]]
    /\ UNCHANGED <<ukr, backend, applied, gmo, wb, fx>>

NextList ==
    \/ /\ lst.pc = "idle"
       /\ \E id \in {-1, 0} \cup UserIds : GoCall(id)
    \/ /\ lst.pc = "await_list"
       /\ \E ans \in ListAnswers : GoAnswer(ans)

\* ------------------------------------------------ the shared transport

\* Most tool invocations of a run, and most close and reset operations.
MaxCalls == 3
MaxOps == 2

IdleTask == [pc |-> "idle", client |-> 0, http |-> 0, left |-> 0, err |-> "none"]

\* The process before main(): nothing configured, no client (_client is None,
\* written 0), no WorkBoardClient object (owner: the _client field of each
\* object, 0 for None) and no httpx handle.
IdleWb ==
    [started |-> FALSE, token |-> FALSE, config |-> FALSE, client |-> 0,
     owner |-> <<>>, handles |-> <<>>, task |-> [p \in Procs |-> IdleTask],
     closer |-> 0, used |-> {}, calls |-> 0, ops |-> 0,
     last |-> [op |-> "none", by |-> "none"]]

\* config.py 65-80 and 20-34: the configuration is built on first use and
\* needs the token of the environment.
get_config(w) ==
    IF w.config THEN Ok(w)
    ELSE IF ~w.token THEN Exc("ConfigurationError")
    ELSE Ok([w EXCEPT !.config = TRUE])

\* client.py 194-199 and 40-43: the global client is built on first use.
get_client(w) ==
    IF w.client # 0 THEN Ok(w)
    ELSE LET c == get_config(w) IN
         IF ~c.ok THEN c
         ELSE Ok([c.v EXCEPT !.owner = Append(@, 0), !.client = Len(w.owner) + 1])

\* _get_client building a handle for every request.
GetHandleFresh(w, c) ==
    [w EXCEPT !.handles = Append(@, "open"), !.owner[c] = Len(w.handles) + 1]

\* client.py 45-57: the httpx handle of a client object is built on its first
\* request and kept.
_get_client(w, c) ==
    IF w.owner[c] # 0 THEN w
    ELSE [w EXCEPT !.handles = Append(@, "open"), !.owner[c] = Len(w.handles) + 1]

\* client.py 88-98: a request of task t through client object c. A handle
\* that was closed refuses the request.
SendRequest(w, t, c) ==
    LET w1 == _get_client(w, c)
        h == w1.owner[c]
    IN  IF w1.handles[h] = "closed"
        THEN [w1 EXCEPT !.task[t].pc = "raised", !.task[t].err = "RuntimeError",
                        !.task[t].http = h]
        ELSE [w1 EXCEPT !.task[t].pc = "awaiting", !.task[t].http = h,
                        !.used = @ \cup {h}]

\* __init__.py 11-36: main() parses the arguments and runs the server; the
\* environment either holds the token or does not.
Start(token) ==
    /\ ~wb.started
    /\ wb' = [wb EXCEPT !.started = TRUE, !.token = token,
                        !.last = [op |-> "start", by |-> "none"]]
    /\ UNCHANGED <<ukr, backend, applied, gmo, lst, fx>>

\* A tool invocation is accepted and runs to its first await: get_client(),
\* then the first of its n requests.
Invoke(t, n) ==
    /\ wb.started
    /\ wb.task[t].pc \in {"idle", "returned", "raised"}
    /\ wb.calls < MaxCalls
    /\ LET w0 == [wb EXCEPT !.calls = @ + 1, !.last = [op |-> "invoke", by |-> t],
                            !.task[t] = [IdleTask EXCEPT !.left = n - 1]]
           g == get_client(w0)
       IN  wb' = IF ~g.ok
                 THEN [w0 EXCEPT !.task[t].pc = "raised", !.task[t].err = g.exc]
                 ELSE SendRequest([g.v EXCEPT !.task[t].client = g.v.client], t, g.v.client)
    /\ UNCHANGED <<ukr, backend, applied, gmo, lst, fx>>

\* The answer to a request arrives: the invocation sends its next request
\* through the client object it holds, or returns.
Respond(t) ==
    /\ wb.task[t].pc = "awaiting"
    /\ wb' = IF wb.task[t].left > 0
             THEN SendRequest([wb EXCEPT !.task[t].left = @ - 1,
                                         !.last = [op |-> "request", by |-> t]],
                              t, wb.task[t].client)
             ELSE [wb EXCEPT !.task[t].pc = "returned",
                             !.last = [op |-> "return", by |-> t]]
    /\ UNCHANGED <<ukr, backend, applied, gmo, lst, fx>>

\* client.py 59-62: close() on the global client up to its await: without a
\* handle nothing happens, with one the handle is closed.
CloseBegin ==
    /\ wb.client # 0
    /\ wb.closer = 0
    /\ wb.ops < MaxOps
    /\ LET c == wb.client IN
       wb' = IF wb.owner[c] = 0
             THEN [wb EXCEPT !.ops = @ + 1, !.last = [op |-> "close", by |-> "none"]]
             ELSE [wb EXCEPT !.ops = @ + 1, !.closer = c,
                             !.handles[wb.owner[c]] = "closed",
                             !.last = [op |-> "closing", by |-> "none"]]
    /\ UNCHANGED <<ukr, backend, applied, gmo, lst, fx>>

\* close() that leaves the closed handle in place.
CloseEndKeepsHandle ==
    /\ wb.closer # 0
    /\ wb' = [wb EXCEPT !.closer = 0, !.last = [op |-> "close", by |-> "none"]]
    /\ UNCHANGED <<ukr, backend, applied, gmo, lst, fx>>

\* client.py 63: after the await, self._client = None.
CloseEnd ==
    /\ wb.closer # 0
    /\ wb' = [wb EXCEPT !.owner[wb.closer] = 0, !.closer = 0,
                        !.last = [op |-> "close", by |-> "none"]]
    /\ UNCHANGED <<ukr, backend, applied, gmo, lst, fx>>

\* test_tools.py 146-156: the global client and configuration are set to None.
Reset ==
    /\ wb.ops < MaxOps
    /\ wb' = [wb EXCEPT !.ops = @ + 1, !.client = 0, !.config = FALSE,
                        !.last = [op |-> "reset", by |-> "none"]]
    /\ UNCHANGED <<ukr, backend, applied, gmo, lst, fx>>

NextClient ==
    \/ \E token \in BOOLEAN : Start(token)
    \/ \E t \in Procs, n \in 1..2 : Invoke(t, n)
    \/ \E t \in Procs : Respond(t)
    \/ CloseBegin
    \/ CloseEnd
    \/ Reset

\* --------------------------------------------- helpers called on their own

\* Largest id handed to a validator, longest backend message, longest token.
MaxId == 3
MaxMsgLen == 3
MaxTokenLen == 2

IdleFx == [op |-> "idle", arg |-> JAbsent, out |-> Exc("none")]

\* --- strings as sequences of characters

TokenChars == {"a", "b"}
MsgChars == {"a", "b", "c"}
Stars == <<"*", "*", "*">>

\* t in s
Contains(s, t) ==
    \E i \in 1..(Len(s) - Len(t) + 1) : SubSeq(s, i, i + Len(t) - 1) = t

\* s.replace(t, "***"): the occurrences of t from left to right, not overlapping.
RECURSIVE Replace(_, _)
Replace(s, t) ==
    IF Len(s) < Len(t) THEN s
    ELSE IF SubSeq(s, 1, Len(t)) = t
         THEN Stars \o Replace(SubSeq(s, Len(t) + 1, Len(s)), t)
         ELSE <<Head(s)>> \o Replace(Tail(s), t)

\* --- errors.py: the messages of the error types

\* identifier[:20] + "..." if len(identifier) > 20 else identifier
MaxIdentifierLen == 20

Rendered(exc, code, text) == [ok |-> FALSE, exc |-> exc, code |-> code, text |-> text]

\* errors.py 78-81: the token of the environment is replaced in the message.
NewWorkBoardApiError(token, code, message) ==
    Rendered("WorkBoardApiError", code,
             IF token # <<>> THEN Replace(message, token) ELSE message)

\* errors.py 50-52
NewNotFoundError(identifier) ==
    Rendered("NotFoundError", 404,
             IF Len(identifier) > MaxIdentifierLen
             THEN SubSeq(identifier, 1, MaxIdentifierLen) \o <<"...">>
             ELSE identifier)

\* errors.py 58-59
NewPermissionDeniedError(code, required_scope) ==
    Rendered("PermissionDeniedError", code, <<required_scope>>)

\* errors.py 65-69: the hint is the retry_after the message names, JAbsent when
\* it names none.
NewRateLimitError(retry_after) ==
    [ok |-> FALSE, exc |-> "RateLimitError", code |-> 429, text |-> <<"Rate limit exceeded.">>,
     hint |-> IF Truthy(retry_after) THEN retry_after ELSE JAbsent]

\* --- client.py: one request and the mapping of its response

\* A backend message: a string, or an object holding one.
Txt(chars) == [t |-> "str", chars |-> chars]
MsgObject(chars) == [t |-> "msgdict", chars |-> chars]
ErrorBody(message, retry_after) ==
    [t |-> "dict", message |-> message, retry_after |-> retry_after]

\* str(x) of a message
StrOf(m) ==
    CASE m.t = "str" -> m.chars
      [] m.t = "msgdict" -> <<"{">> \o m.chars \o <<"}">>
      [] m.t = "null" -> <<"None">>
      [] OTHER -> <<"Unknown error">>

\* What the transport gets for a request: a failure of the connection, or a
\* response with a status and a body that is too large, is no JSON, or is JSON.
Timeout(text) == [kind |-> "timeout", status |-> 0, text |-> text]
RequestFailed(text) == [kind |-> "request_error", status |-> 0, text |-> text]
TooLarge(status) == [kind |-> "too_large", status |-> status]
NotJson(status) == [kind |-> "invalid_json", status |-> status]
Json(status, data) == [kind |-> "json", status |-> status, data |-> data]

\* response.is_success
IsSuccess(status) == status \in {200, 201, 204}

\* client.py 124-150: _handle_error_response
_handle_error_response(token, status_code, data) ==
    IF ~IsDict(data) THEN Rendered("AttributeError", status_code, <<>>)
    ELSE LET error_msg == StrOf(DictGet(Field(data, "message"), JAbsent)) IN
         CASE status_code = 401 -> NewPermissionDeniedError(401, "Valid API token")
           [] status_code = 403 -> NewPermissionDeniedError(403, "Required permission scope")
           [] status_code = 404 -> NewNotFoundError(error_msg)
           [] status_code = 429 -> NewRateLimitError(Field(data, "retry_after"))
           [] OTHER -> NewWorkBoardApiError(token, status_code, error_msg)

\* client.py 88-122: _request, from the outcome of client.request on.
_request(token, r) ==
    CASE r.kind = "timeout" -> NewWorkBoardApiError(token, 0, <<"Request timeout: ">> \o r.text)
      [] r.kind = "request_error" ->
            NewWorkBoardApiError(token, 0, <<"Request failed: ">> \o r.text)
      [] r.kind = "too_large" -> NewWorkBoardApiError(token, 0, <<"Response too large">>)
      [] r.kind = "invalid_json" ->
            NewWorkBoardApiError(token, r.status, <<"Invalid JSON response">>)
      [] OTHER -> IF IsSuccess(r.status) THEN Ok(r.data)
                  ELSE _handle_error_response(token, r.status, r.data)

\* --- inputs

Tokens == SeqsUpTo(TokenChars, MaxTokenLen) \ {<<>>}

\* Messages: short ones, and ones that hold the token at the cut of NotFoundError.
Pad(n) == [i \in 1..n |-> "c"]
Messages(token) ==
    SeqsUpTo(MsgChars, MaxMsgLen)
    \cup {Pad(n) \o token : n \in {MaxIdentifierLen - 1, MaxIdentifierLen}}

Statuses == {200, 400, 401, 403, 404, 429, 500}

ErrorBodies(token) ==
    {ErrorBody(m, JAbsent) : m \in {JAbsent, JNull} \cup {Txt(q) : q \in Messages(token)}}
    \cup {ErrorBody(MsgObject(q), JAbsent) : q \in {<<>>, token}}
    \cup {ErrorBody(JAbsent, ra) : ra \in {JNull, JNum(0), JNum(1)}}

Responses(token) ==
    {Timeout(q) : q \in {<<>>, token}}
    \cup {RequestFailed(q) : q \in {<<>>, token}}
    \cup {TooLarge(st) : st \in Statuses}
    \cup {NotJson(st) : st \in Statuses}
    \cup {Json(st, d) : st \in Statuses, d \in {JNull, JList, JText} \cup ErrorBodies(token)}

Timestamps ==
    {JAbsent, JNull, JEmpty, JText, JList, EmptyDict, JInf, JNum(-1), JNum(0), JNum(1),
     JStr(1), JNum(LastTimestamp), JNum(LastTimestamp + 1)}

Numerics == {JAbsent, JNull, JEmpty, JText, JList, JInf, JNum(0), JNum(1), JStr(1)}

Units == {JAbsent, JNull, JText, [t |-> "dict", name |-> JName("Currency")],
          [t |-> "dict", name |-> JName("Number")], [t |-> "dict", name |-> JAbsent]}

FullMetric(unit, target, achieved, id, name, target_date, last_update) ==
    [t |-> "dict", metric_unit |-> unit, metric_target |-> target,
     metric_achieve_target |-> achieved, metric_id |-> id, metric_name |-> name,
     target_date |-> target_date, metric_last_update |-> last_update]

\* Metric records that differ from a complete one in one field, and values
\* that are no record.
MetricInputs ==
    {FullMetric(u, JNum(1), JStr(1), JNum(1), JName("Revenue"), JNum(1), JNum(0)) : u \in Units}
    \cup {FullMetric(JAbsent, x, JStr(1), JNum(1), JName("Revenue"), JNum(1), JNum(0)) : x \in Numerics}
    \cup {FullMetric(JAbsent, JNum(1), x, JNum(1), JName("Revenue"), JNum(1), JNum(0)) : x \in Numerics}
    \cup {FullMetric(JAbsent, JNum(1), JStr(1), x, JName("Revenue"), JNum(1), JNum(0)) : x \in Numerics}
    \cup {FullMetric(JAbsent, JNum(1), JStr(1), JNum(1), x, JNum(1), JNum(0)) : x \in {JAbsent, JNull}}
    \cup {FullMetric(JAbsent, JNum(1), JStr(1), JNum(1), JName("Revenue"), x, JNum(0)) : x \in Timestamps}
    \cup {FullMetric(JAbsent, JNum(1), JStr(1), JNum(1), JName("Revenue"), JNum(1), x) : x \in Timestamps}
    \cup {EmptyDict, JNull, JText, JList}

FullGoal(progress, goal_id, name, owner, start, target, metrics) ==
    [t |-> "goal", goal_progress |-> progress, goal_id |-> goal_id, goal_name |-> name,
     goal_owner_full_name |-> owner, goal_team_name |-> JAbsent,
     goal_start_date |-> start, goal_target_date |-> target, goal_metrics |-> metrics]

GoalInputs ==
    {FullGoal(x, JNum(1), JName("My OKR"), JAbsent, JNum(1), JNum(1), JAbsent) : x \in Numerics}
    \cup {FullGoal(JNum(1), x, JName("My OKR"), JAbsent, JNum(1), JNum(1), JAbsent) :
            x \in {JAbsent, JNull, JStr(1)}}
    \cup {FullGoal(JNum(1), JNum(1), x, o, JNum(1), JNum(1), JAbsent) :
            x \in {JAbsent, JNull}, o \in {JNull, JEmpty, JName("Ada")}}
    \cup {FullGoal(JNum(1), JNum(1), JName("My OKR"), JAbsent, x, y, JAbsent) :
            x \in Timestamps, y \in {JAbsent, JNum(1), JNum(LastTimestamp + 1)}}
    \cup {FullGoal(JNum(1), JNum(1), JName("My OKR"), JAbsent, JNum(1), JNum(1), x) :
            x \in {JNull, JText, JNum(0), JNum(1), MetricDictNode, EmptyDict,
                   MetricItems(<<>>), MetricItems(<<JNull>>), MetricItems(<<GoodMetric>>),
                   MetricItems(<<GoodMetric, EmptyDict>>)}}
    \cup {EmptyDict, JNull, JList}

\* --- the calls

Applied(op, arg, out) ==
    /\ fx.op = "idle"
    /\ fx' = [op |-> op, arg |-> arg, out |-> out]
    /\ UNCHANGED <<ukr, backend, applied, gmo, wb, lst>>

CallFormatDate(ts) == Applied("_format_date", ts, _format_date(ts))
CallFormatMetric(m) == Applied("_format_metric", m, _format_metric(m))
CallFormatGoal(g) == Applied("_format_goal", g, _format_goal(g))
CallValidateUserId(n) == Applied("validate_user_id", n, validate_user_id(n))
CallValidateObjectiveId(n) == Applied("validate_objective_id", n, validate_objective_id(n))
CallValidateMetricId(n) == Applied("validate_metric_id", n, validate_metric_id(n))
CallRequest(token, r) == Applied("_request", [token |-> token, response |-> r], _request(token, r))

\* The call is over; the next one starts afresh.
CallOver ==
    /\ fx.op # "idle"
    /\ fx' = IdleFx
    /\ UNCHANGED <<ukr, backend, applied, gmo, wb, lst>>

NextPure ==
    \/ \E ts \in Timestamps : CallFormatDate(ts)
    \/ \E m \in MetricInputs : CallFormatMetric(m)
    \/ \E g \in GoalInputs : CallFormatGoal(g)
    \/ \E n \in (0 - MaxId)..MaxId : CallValidateUserId(n)
    \/ \E n \in (0 - MaxId)..MaxId : CallValidateObjectiveId(n)
    \/ \E n \in (0 - MaxId)..MaxId : CallValidateMetricId(n)
    \/ \E token \in Tokens : \E r \in Responses(token) : CallRequest(token, r)
    \/ CallOver

Init ==
    /\ ukr = [p \in Procs |-> IdleUkr]
    /\ backend \in [MetricIds -> 0..MaxVal]
    /\ applied = <<>>
    /\ gmo = IdleGmo
    /\ wb = IdleWb
    /\ lst = IdleLst
    /\ fx = IdleFx

\* One invocation of update_key_result with any input, against a backend that
\* may answer the read-back with anything.
NextUKR ==
    \E p \in {"a"} :
        \/ \E id \in IdInputs, v \in ValueInputs, c \in CommentInputs : UkrCall(p, id, v, c)
        \/ /\ ukr[p].pc = "reading"
           /\ \E ans \in MetricAnswers(ukr[p].metric_id, backend[ukr[p].metric_id]) :
                    UkrReadBack(p, ans)
        \/ \E o \in PutOutcomes : UkrPut(p, o)

SpecUKR == Init /\ [][NextUKR]_vars

\* get_my_objectives alone: the metric values of the backend play no part.
InitGMO == Init /\ backend = [m \in MetricIds |-> 0]

SpecGMO == InitGMO /\ [][NextGMO]_vars

\* get_objectives against a list endpoint that may answer anything.
SpecList == InitGMO /\ [][NextList]_vars

\* The process from main() on: invocations as concurrent tasks sharing the
\* client, with close and reset operations in between.
SpecClient == InitGMO /\ [][NextClient]_vars

\* The formatters, the validators and the transport's error mapping, each
\* called on its own with any input.
SpecPure == InitGMO /\ [][NextPure]_vars

\* Two invocations of update_key_result on the same metric, run as independent
\* tasks: each step is one stretch of code between two awaits, and the steps of
\* the two interleave freely.
NextRace ==
    \E p \in Procs :
        \/ \E id \in MetricIds, n \in 0..MaxVal :
                UkrCall(p, id, ValueStr("digits", n, 1), NoComment)
        \/ /\ ukr[p].pc = "reading"
           /\ \E ans \in PlainAnswers(ukr[p].metric_id, backend[ukr[p].metric_id]) :
                    UkrReadBack(p, ans)
        \/ \E o \in PutOutcomes : UkrPut(p, o)

SpecRace == Init /\ [][NextRace]_vars

\* ------------------------------------------------------------------ claims

PutIssued(me) ==
    /\ Len(me.reqs) = 2
    /\ me.reqs[1] = Request("GET", <<"metric">>, NoBody)
    /\ me.reqs[2] = Request("PUT", <<"metric", me.metric_id>>, Payload(me.value, me.comment))

PastReadBack(me) == me.rb # "none"

\* C1: once validation has passed, a failed read-back (the GET raises, the body
\* has no collection where one is expected, a record is malformed, or the id is
\* not in the collection) never blocks the write: the PUT is issued, the
\* invocation fails only if the PUT itself fails, and the result carries neither
\* a warning nor an error.
C1_ReadFailureNeverBlocksWrite ==
    \A p \in Procs :
        LET me == ukr[p] IN
        (PastReadBack(me) /\ me.rb # "ok") =>
            /\ PutIssued(me)
            /\ ~me.warning.set
            /\ me.pc \in {"putting", "returned", "raised"}
            /\ me.pc = "raised" => me.at_put.some
            /\ me.pc = "returned" => me.result.keys = {"key_result"}

C1_Witness ==
    \E p \in Procs :
        /\ ukr[p].rb = "raise"
        /\ ukr[p].pc = "returned"
        /\ ukr[p].result.keys = {"key_result"}

\* C2: when the read-back finds the metric with achieved value c and the new
\* value v is below c, the warning is set and names c, v, the metric's name and
\* its id, the PUT is still issued and a returned result holds the updated
\* record and the warning; when v is not below c there is no warning.
C2_WarningIffDecrease ==
    \A p \in Procs :
        LET me == ukr[p]
            c == F(me.at_read.f)
            v == FloatOfValue(me.value).v
        IN  me.rb = "ok" =>
              /\ PutIssued(me)
              /\ FloatLt(v, c) =>
                    /\ me.warning.set
                    /\ me.warning.old = c
                    /\ me.warning.new = v
                    /\ me.warning.name \in {JName("Revenue"), DefaultName(me.metric_id)}
                    /\ me.warning.metric_id = me.metric_id
                    /\ me.pc = "returned" =>
                          /\ me.result.keys = {"key_result", "warning"}
                          /\ me.result.warning = me.warning
                          /\ me.result.key_result =
                                [metric_id |-> me.metric_id, metric_achieve_target |-> v.n]
              /\ ~FloatLt(v, c) =>
                    /\ ~me.warning.set
                    /\ me.pc = "returned" => me.result.keys = {"key_result"}

C2_Witness ==
    \E p \in Procs :
        /\ ukr[p].rb = "ok"
        /\ ukr[p].pc = "returned"
        /\ ukr[p].current_value = Some(F(MaxVal))
        /\ FloatOfValue(ukr[p].value).v = F(MaxVal - 1)
        /\ "warning" \in ukr[p].result.keys

\* C3: two invocations on the same metric are not serialized. Whatever the
\* other invocation is doing, an invocation waiting for its read-back can take
\* it and one waiting for its PUT can have it applied; the backend holds the
\* value of the PUT it applied last; and each warning is the one computed from
\* the value seen at the read, whatever the backend holds at the write.
C3_UnserializedLastWriteWins ==
    /\ \A p \in Procs :
          LET me == ukr[p] IN
          /\ me.pc = "reading" =>
                ENABLED UkrReadBack(p, CHOOSE a \in PlainAnswers(me.metric_id, backend[me.metric_id]) :
                                            a.class = "ok")
          /\ me.pc = "putting" =>
                ENABLED UkrPut(p, [kind |-> "ok", applied |-> TRUE, exc |-> "none"])
          /\ me.rb = "ok" =>
                (me.warning.set <=> FloatLt(FloatOfValue(me.value).v, F(me.at_read.f)))
          /\ me.pc = "raised" => me.at_put.some /\ me.err \in TransportRaises
    /\ \A id \in MetricIds :
          applied # <<>> => backend[id] = applied[Len(applied)][2]

C3_Witness ==
    \E p, q \in Procs :
        /\ p # q
        /\ ukr[p].pc = "returned" /\ ukr[q].pc = "returned"
        /\ applied = <<<<q, FloatOfValue(ukr[q].value).v.n>>, <<p, FloatOfValue(ukr[p].value).v.n>>>>
        /\ ukr[p].at_read # ukr[p].at_put
        /\ ukr[p].warning.set
        /\ ~FloatLt(FloatOfValue(ukr[p].value).v, F(ukr[p].at_put.f))

IsDetailPath(path) == Len(path) = 4 /\ path[1] = "user" /\ path[3] = "goal"
IsListPath(path) == Len(path) = 3 /\ path[1] = "user" /\ path[3] = "goal"

DetailRequestsFor(oid) ==
    {i \in 1..Len(gmo.reqs) : gmo.reqs[i] = DetailRequest(gmo.user_id, oid)}

\* C4: a not-found or permission error on the detail fetch of one id is not
\* raised and does not end the loop: the id is recorded in skipped with its
\* reason, the loop moves on to the next id, whose request is issued when it is
\* a valid id, and a returned result accounts for every id.
C4_NotFoundIsSkipped ==
    /\ \A i \in 1..Len(gmo.fetched) :
          gmo.fetched[i].class \in {"NotFoundError", "PermissionDeniedError"} =>
            /\ gmo.fetched[i].into = "skipped"
            /\ \E k \in 1..Len(gmo.skipped) :
                  gmo.skipped[k] = [objective_id |-> gmo.fetched[i].oid, error |-> NotAccessible]
            /\ gmo.idx > i
            /\ (i < Len(gmo.objective_ids) /\ validate_objective_id(gmo.objective_ids[i + 1]).ok) =>
                  LET before == IF gmo.ids_in.given THEN 1 ELSE 2 IN
                  /\ Len(gmo.reqs) >= before + i + 1
                  /\ gmo.reqs[before + i + 1] =
                        DetailRequest(gmo.user_id, gmo.objective_ids[i + 1])
    /\ gmo.pc = "returned" /\ "objectives" \in gmo.result.keys /\ gmo.objective_ids # <<>> =>
          /\ Len(gmo.result.objectives) + Len(gmo.result.skipped) = Len(gmo.objective_ids)
          /\ ("skipped" \in gmo.result.keys <=> gmo.result.skipped # <<>>)

C4_Witness ==
    /\ gmo.ids_in = Ids(<<1, 2>>)
    /\ gmo.pc = "returned"
    /\ Len(gmo.result.objectives) = 1
    /\ gmo.result.objectives[1].t = "formatted"
    /\ gmo.result.skipped = <<[objective_id |-> 2, error |-> NotAccessible]>>
    /\ gmo.fetched[2].class = "NotFoundError"

\* C5: once the user id is known, no failure on one objective id (an error
\* status, a transport failure, a detail body of another shape) makes the
\* whole operation fail: the function never raises out of a detail fetch.
C5_NoPerIdFailureEscalates ==
    gmo.pc = "raised" => gmo.raised_at # "detail"

\* C6: when an operation fails with a validation error, that invocation has
\* issued no backend request.
C6_ValidationBeforeAnyRequest ==
    /\ \A p \in Procs :
          (ukr[p].pc = "raised" /\ ukr[p].err \in {"InvalidMetricIdError", "PydanticValidationError"})
              => ukr[p].reqs = <<>>
    /\ (gmo.pc = "raised" /\ gmo.ids_in.given /\ gmo.err = "InvalidObjectiveIdError")
          => gmo.reqs = <<>>

\* C7: an invalid-objective-id error reaches the caller only for an id of the
\* explicit input list, never for an id found by discovery.
C7_InvalidIdOnlyFromExplicit ==
    (gmo.pc = "raised" /\ gmo.err = "InvalidObjectiveIdError") => gmo.ids_in.given

\* C8: when the user id cannot be parsed from the answer to GET /user (a
\* missing key, another shape, a value that is no integer), the operation
\* returns the structured error result, raises nothing and issues no request
\* after the GET /user.
C8_UnparsedUserFailsFast ==
    gmo.user_class \in {"unparseable", "nonfinite"} =>
        /\ gmo.pc = "returned"
        /\ gmo.result.keys = {"error"}
        /\ gmo.result.text = NoUserIdError
        /\ gmo.reqs = <<Request("GET", <<"user">>, NoBody)>>

\* C9: without ids, a discovery that finds no objective id returns the empty
\* objectives list with the explanatory message after exactly GET /user and
\* GET /metric; and get_my_objectives never requests the capped list endpoint.
C9_EmptyDiscoveryNoFallback ==
    /\ \A i \in 1..Len(gmo.reqs) : ~IsListPath(gmo.reqs[i].path)
    /\ (~gmo.ids_in.given /\ gmo.metrics_class = "listing" /\ gmo.parents = {}) =>
          /\ gmo.pc = "returned"
          /\ gmo.result.keys = {"objectives", "message"}
          /\ gmo.result.objectives = <<>>
          /\ gmo.result.text = NoObjectivesMessage
          /\ gmo.reqs = <<Request("GET", <<"user">>, NoBody), Request("GET", <<"metric">>, NoBody)>>

C9_Witness ==
    /\ ~gmo.ids_in.given
    /\ gmo.metrics_class = "listing"
    /\ gmo.parents = {}
    /\ gmo.pc = "returned"
    /\ gmo.result.text = NoObjectivesMessage

\* C10: without ids, once the operation has ended, every parent id of a metric
\* that passes the year filter has been fetched through the detail endpoint
\* exactly once and is in exactly one of objectives or skipped, and no other id
\* has been fetched.
C10_EveryParentFetchedOnce ==
    (~gmo.ids_in.given /\ gmo.metrics_class = "listing" /\ gmo.pc \in {"returned", "raised"}) =>
        /\ \A g \in gmo.parents :
              /\ Cardinality(DetailRequestsFor(g)) = 1
              /\ Cardinality({i \in 1..Len(gmo.fetched) :
                                gmo.fetched[i].oid = g
                                /\ gmo.fetched[i].into \in {"objectives", "skipped"}}) = 1
        /\ \A i \in 1..Len(gmo.reqs) :
              IsDetailPath(gmo.reqs[i].path) => gmo.reqs[i].path[4] \in gmo.parents

\* C11: the ids found by discovery are fetched in strictly ascending order, each
\* once, whatever the order and multiplicity of the metrics that refer to
\* them: the id sequence is the ascending enumeration of the set of parents,
\* and the detail requests follow it.
C11_DiscoveredIdsSortedUnique ==
    (~gmo.ids_in.given /\ gmo.metrics_class = "listing") =>
        /\ {gmo.objective_ids[i] : i \in 1..Len(gmo.objective_ids)} = gmo.parents
        /\ \A i, j \in 1..Len(gmo.objective_ids) :
              i < j => gmo.objective_ids[i] < gmo.objective_ids[j]
        /\ \A k \in 3..Len(gmo.reqs) :
              gmo.reqs[k] = DetailRequest(gmo.user_id, gmo.objective_ids[k - 2])
        /\ \A k \in 1..Len(gmo.fetched) : gmo.fetched[k].oid = gmo.objective_ids[k]

C11_Witness ==
    /\ ~gmo.ids_in.given
    /\ gmo.listed = <<2, 1, 2>>
    /\ gmo.pc = "returned"
    /\ Len(gmo.result.objectives) = 2
    /\ gmo.result.objectives[1].objective_id = JNum(1)
    /\ gmo.result.objectives[2].objective_id = JNum(2)

\* C12: discovery takes parent ids only from metrics whose target date lies
\* within the current calendar year: a metric dated before the year or in a
\* later year contributes no objective id.
C12_OnlyCurrentYearMetrics ==
    (~gmo.ids_in.given /\ gmo.metrics_class = "listing") =>
        {gmo.objective_ids[i] : i \in 1..Len(gmo.objective_ids)} \subseteq gmo.current_parents

PutRequests(me) == {i \in 1..Len(me.reqs) : me.reqs[i].method = "PUT"}

\* C13: an invocation of update_key_result that passed validation issues its
\* PUT once, after the read-back has ended, and never again: while the
\* read-back is pending no PUT is out, afterwards exactly one is, and when the
\* PUT fails the error is raised, no result is returned and no second PUT is
\* issued.
C13_SinglePutNoRetry ==
    \A p \in Procs :
        LET me == ukr[p] IN
        /\ me.pc \in {"idle", "reading"} => PutRequests(me) = {}
        /\ me.pc = "reading" => me.reqs = <<Request("GET", <<"metric">>, NoBody)>>
        /\ PastReadBack(me) => PutRequests(me) = {2} /\ Len(me.reqs) = 2
        /\ (me.pc = "raised" /\ PastReadBack(me)) =>
              /\ me.err \in TransportRaises
              /\ me.result.keys = {}
              /\ me.at_put # None

C13_Witness ==
    /\ ukr["a"].pc = "raised"
    /\ ukr["a"].err = "WorkBoardApiError"
    /\ ukr["a"].rb = "ok"
    /\ PutRequests(ukr["a"]) = {2}
    /\ applied = <<>>

\* C14: a missing credential is a failure of startup, not of a call: the
\* server does not run without the token, and no tool invocation starts and
\* then fails with the configuration error.
C14_MissingTokenFailsAtStartup ==
    /\ wb.started => wb.token
    /\ \A t \in Procs : wb.task[t].err # "ConfigurationError"

\* C15: without a close or reset, nothing is created before the first
\* invocation, and however the invocations interleave at most one client
\* object and one httpx handle are created, every request going through it.
C15_SingleLazyHandle ==
    wb.ops = 0 =>
        /\ wb.calls = 0 => wb.client = 0 /\ wb.owner = <<>> /\ wb.handles = <<>>
        /\ Len(wb.owner) <= 1
        /\ Len(wb.handles) <= 1
        /\ wb.used \subseteq {1}
        /\ \A t \in Procs : wb.task[t].pc = "awaiting" =>
              wb.task[t].client = 1 /\ wb.task[t].http = 1 /\ wb.handles[1] = "open"

C15_Witness ==
    /\ wb.ops = 0
    /\ wb.calls = MaxCalls
    /\ \A t \in Procs : wb.task[t].pc = "awaiting"
    /\ wb.task["a"].left = 0 /\ wb.task["b"].left = 1
    /\ wb.handles = <<"open">>
    /\ wb.owner = <<1>>

\* The handle the global client holds, if it is open.
LiveHandles ==
    IF wb.client = 0 THEN {}
    ELSE {h \in 1..Len(wb.handles) : wb.owner[wb.client] = h /\ wb.handles[h] = "open"}

GoalNodeOf(body) ==
    IF body.top # "dict" \/ ~IsDict(body.data) THEN JAbsent
    ELSE IF ~IsDict(Field(body.data, "user")) THEN JAbsent
    ELSE Field(Field(body.data, "user"), "goal")

SiblingCountOf(body) ==
    IF body.top # "dict" \/ ~IsDict(body.data) THEN JAbsent
    ELSE Field(body.data, "goal_count")

\* A key that is a base-10 digit string: not empty, ASCII digits only.
IsBase10(key) == key # <<>> /\ \A i \in 1..Len(key) : key[i] \in AsciiDigits

Normalized == lst.class = "body" /\ lst.pc \in {"returned", "raised"}

\* C17: for every successful answer of the list endpoint get_objectives
\* returns a result, and the result carries the warning, stating both counts,
\* exactly when the reported total exceeds the number of objectives returned.
C17_CapDivergenceSurfaced ==
    Normalized =>
        /\ lst.pc = "returned"
        /\ LET n == Len(lst.result.objectives)
               total == lst.norm.v.total
           IN  /\ "warning" \in lst.result.keys <=> (total.t = "num" /\ total.v > n)
               /\ "warning" \in lst.result.keys => lst.result.warning = CapWarning(n, total)

\* C18: a goal mapping that carries a count entry beside its numeric keys is
\* normalized to its records, with that count as the reported total and never
\* as an item: {"0": A, "1": B, "goal_count": 5} gives 2 items and total 5;
\* and the empty envelope gives no item and total 0.
C18_CountEntryIsReportedTotal ==
    Normalized =>
        LET g == GoalNodeOf(lst.body) IN
        /\ (g.t = "map" /\ SiblingCountOf(lst.body) = JAbsent) =>
              \A i \in 1..Len(g.entries) :
                  g.entries[i].key = CountKey =>
                      /\ lst.norm.ok
                      /\ lst.norm.v.total = g.entries[i].value
                      /\ \A k \in 1..Len(lst.norm.v.items) :
                            lst.norm.v.items[k] # g.entries[i].value
        /\ lst.body = Envelope(JAbsent) => lst.norm = Ok(Pair(<<>>, JNum(0)))

\* C19: from a goal mapping the normalizer returns exactly the values whose
\* key is a base-10 digit string and whose value is a record, in the order of
\* the mapping; from a list, the list; from an absent or scalar node, nothing.
C19_KeepsDigitKeyedRecords ==
    Normalized =>
        LET g == GoalNodeOf(lst.body) IN
        /\ lst.norm.ok
        /\ lst.norm.v.items =
              CASE g.t = "map" ->
                     ValuesOf(SelectSeq(g.entries,
                                LAMBDA e : IsBase10(e.key) /\ IsDict(e.value)))
                [] g.t = "list" -> g.items
                [] OTHER -> <<>>

\* C20: whatever the shapes of the data, user, goal and goal_count nodes, the
\* normalizer does not raise and its reported total is an integer.
C20_NormalizerTotalIsInteger ==
    Normalized => lst.norm.ok /\ lst.norm.v.total.t = "num"

\* C21: the formatters never raise, whatever the record holds; a timestamp
\* that is absent, not positive or not a number gives the empty string.
C21_FormattersNeverRaise ==
    /\ fx.op \in {"_format_date", "_format_metric", "_format_goal"} => fx.out.ok
    /\ fx.op = "_format_date" =>
          ((~PyInt(fx.arg).ok \/ PyInt(fx.arg).v <= 0) => fx.out = Ok(JEmpty))

\* The text of the backend or of the connection that a response hands to the
\* error it is turned into.
EmbeddedText(r) ==
    CASE r.kind \in {"timeout", "request_error"} -> r.text
      [] r.kind = "json" /\ IsDict(r.data) /\ Field(r.data, "message") # JAbsent ->
            StrOf(r.data.message)
      [] OTHER -> <<>>

\* C22: an error made from a message that embeds the token never holds the
\* token, and an error that quotes the message holds *** in its place.
C22_TokenNeverRendered ==
    (fx.op = "_request" /\ ~fx.out.ok /\ Contains(EmbeddedText(fx.arg.response), fx.arg.token)) =>
        /\ ~Contains(fx.out.text, fx.arg.token)
        /\ fx.out.exc \in {"WorkBoardApiError", "NotFoundError"} => Contains(fx.out.text, Stars)

\* The error a status stands for.
ErrorOfStatus(status) ==
    CASE status \in {401, 403} -> "PermissionDeniedError"
      [] status = 404 -> "NotFoundError"
      [] status = 429 -> "RateLimitError"
      [] OTHER -> "WorkBoardApiError"

\* C23: a response that is no success raises the error of its status, a
\* UserError, whatever its body is; a 429 carries the retry-after it was given.
C23_ErrorByStatusAlone ==
    (fx.op = "_request" /\ fx.arg.response.status # 0 /\ ~IsSuccess(fx.arg.response.status)) =>
        /\ ~fx.out.ok
        /\ fx.out.exc = ErrorOfStatus(fx.arg.response.status)
        /\ IsUserError(fx.out.exc)
        /\ (fx.out.exc = "RateLimitError" /\ fx.arg.response.kind = "json"
                /\ IsDict(fx.arg.response.data)) =>
              fx.out.hint = (IF Truthy(Field(fx.arg.response.data, "retry_after"))
                             THEN fx.arg.response.data.retry_after ELSE JAbsent)

IdValidators == {"validate_user_id", "validate_objective_id", "validate_metric_id"}

InvalidIdErrorOf(op) ==
    CASE op = "validate_user_id" -> "InvalidUserIdError"
      [] op = "validate_objective_id" -> "InvalidObjectiveIdError"
      [] OTHER -> "InvalidMetricIdError"

\* C25: each id validator fails with its own invalid-id error on every integer
\* that is not positive and returns every positive integer unchanged.
C25_IdValidators ==
    fx.op \in IdValidators =>
        IF fx.arg <= 0 THEN fx.out = Exc(InvalidIdErrorOf(fx.op)) ELSE fx.out = Ok(fx.arg)

C25_Witness ==
    /\ fx.op = "validate_objective_id"
    /\ fx.arg = MaxId
    /\ fx.out = Ok(MaxId)

\* A value the contract accepts: a non-negative number of 1 to 20 characters,
\* with a comment, if any, of at most 1000 characters.
NonNegativeNumber(value) == value.form = "digits"

Acceptable(value, comment) ==
    /\ NonNegativeNumber(value)
    /\ value.len >= MinValueLen /\ value.len <= MaxValueLen
    /\ comment.present => comment.len <= MaxCommentLen

\* C24: update_key_result accepts a value only if it is a non-negative number of
\* at most 20 characters with a comment of at most 1000; an empty, non-numeric,
\* negative, NaN or too long value, or a too long comment, is rejected and
\* never reaches the backend: neither the GET nor the PUT is issued.
C24_RejectedNeverReachesBackend ==
    \A p \in Procs :
        LET me == ukr[p] IN
        (me.pc # "idle" /\ ~Acceptable(me.value, me.comment)) =>
            /\ me.pc = "raised"
            /\ me.reqs = <<>>

\* The positions in the log of an invocation that hold a line of one kind.
LinesOf(me, line) == {i \in 1..Len(me.log) : me.log[i].line = line}

\* C28: the audit line of a successful update (metric id, new value, the comment
\* or "(none)") is written exactly once, after the PUT has succeeded, and never
\* when the PUT failed or validation rejected the call; the audit line of a
\* decrease is written before the PUT is issued.
C28_AuditAfterSuccessOnly ==
    \A p \in Procs :
        LET me == ukr[p]
            updated == LinesOf(me, "AUDIT updated")
            decrease == LinesOf(me, "AUDIT decrease")
        IN  /\ me.pc = "returned" =>
                  /\ Cardinality(updated) = 1
                  /\ \A i \in updated :
                        /\ i = Len(me.log)
                        /\ me.log[i] = UpdatedLine(me.metric_id, me.value, me.comment, 2)
                        /\ me.log[i].comment =
                              (IF me.comment.present /\ me.comment.len > 0
                               THEN me.comment ELSE NoneText)
                        /\ me.reqs[me.log[i].after].method = "PUT"
                        /\ me.at_put.some
            /\ me.pc # "returned" => updated = {}
            /\ (me.warning.set /\ PutIssued(me)) =>
                  /\ Cardinality(decrease) = 1
                  /\ \A i \in decrease :
                        /\ me.log[i].warning = me.warning
                        /\ me.log[i].after = 1
                        /\ me.reqs[1].method = "GET"
            /\ ~me.warning.set => decrease = {}

C28_Witness ==
    \E p \in Procs :
        /\ ukr[p].pc = "returned"
        /\ ukr[p].warning.set
        /\ ukr[p].comment = Comment(0)
        /\ Len(ukr[p].log) = 2
        /\ ukr[p].log[1].line = "AUDIT decrease"
        /\ ukr[p].log[2].line = "AUDIT updated"
        /\ ukr[p].log[2].comment = NoneText

\* Task t has just begun a request: the handle it was given is wb.task[t].http.
RequestBegun(t) ==
    /\ wb.last.by = t
    /\ wb.last.op \in {"invoke", "request"}
    /\ wb.task[t].http # 0

\* C29: no request is ever begun on a handle whose close has started: a request
\* made while close() is suspended waits for it or is given a fresh handle.
C29_NoRequestOnClosingHandle ==
    \A t \in Procs :
        RequestBegun(t) =>
            /\ wb.handles[wb.task[t].http] # "closed"
            /\ wb.task[t].pc = "awaiting"

\* The ids the loop of get_my_objectives runs over: the explicit list, or the
\* ids discovery found.
LoopIds == IF gmo.ids_in.given THEN gmo.ids_in.ids ELSE gmo.objective_ids

AllPositive(ids) == \A i \in 1..Len(ids) : ids[i] > 0

IsDetailRequest(r) == IsDetailPath(r.path)
IsSkipped(note) == note.into = "skipped"
IsKept(note) == note.into = "objectives"

\* The invocation has ended, after GET /user gave the user id.
EndedPastUser ==
    /\ gmo.pc \in {"returned", "raised"}
    /\ gmo.user_class = "parsed"
    /\ gmo.raised_at \notin {"user", "metrics"}

\* Requests, objectives and skipped entries follow the list of ids one to one.
OnePerElement(L) ==
    LET details == SelectSeq(gmo.reqs, IsDetailRequest)
        kept == SelectSeq(gmo.fetched, IsKept)
        skips == SelectSeq(gmo.fetched, IsSkipped)
    IN  /\ details = [i \in 1..Len(L) |-> DetailRequest(gmo.user_id, L[i])]
        /\ Len(gmo.fetched) = Len(L)
        /\ \A i \in 1..Len(L) : gmo.fetched[i].oid = L[i]
        /\ Len(gmo.objectives) + Len(gmo.skipped) = Len(L)
        /\ gmo.skipped = [k \in 1..Len(skips) |->
                             [objective_id |-> skips[k].oid, error |-> NotAccessible]]
        /\ Len(gmo.objectives) = Len(kept)
        /\ \A k \in 1..Len(kept) :
              gmo.objectives[k].t = "formatted" =>
                  gmo.objectives[k].objective_id = JNum(kept[k].oid)

\* C26: with a list L of positive ids, explicit or discovered, exactly one
\* detail request is issued per element of L, in the order of L and repeats
\* included; every element's outcome is recorded on its own: the objectives and
\* the skipped entries together are as many as L and each keeps the order of L.
C26_OneFetchPerElement ==
    (EndedPastUser /\ AllPositive(LoopIds)) => OnePerElement(LoopIds)

\* C27: every element of the objectives sequence get_my_objectives returns is a
\* formatted objective record; the raw body of a detail answer is never an
\* element, also when the answer succeeds with an empty goal node or one that
\* is no record.
C27_ObjectivesAreFormatted ==
    gmo.pc = "returned" =>
        \A k \in 1..Len(gmo.result.objectives) :
            /\ gmo.result.objectives[k].t = "formatted"
            /\ gmo.result.objectives[k].t # "raw"

\* The positions of the discovery request among the requests issued so far.
MetricRequests == {i \in 1..Len(gmo.reqs) : gmo.reqs[i] = Request("GET", <<"metric">>, NoBody)}

\* GET /user has been answered with the user id.
UserResolved == gmo.user_class = "parsed" /\ gmo.pc \notin {"idle", "await_user"}

\* C30: get_my_objectives issues GET /metric exactly when objective_ids is None
\* (once the user id is known): an explicit empty list starts no discovery and
\* returns the empty objectives list, without message or skipped entries, after
\* the single GET /user; an explicit non-empty list never causes a GET /metric.
C30_DiscoveryIffIdsAbsent ==
    /\ gmo.ids_in.given => MetricRequests = {}
    /\ ~UserResolved => MetricRequests = {}
    /\ (UserResolved /\ ~gmo.ids_in.given) => MetricRequests = {2}
    /\ (UserResolved /\ gmo.ids_in = Ids(<<>>)) =>
          /\ gmo.pc = "returned"
          /\ gmo.result.keys = {"objectives"}
          /\ gmo.result.objectives = <<>>
          /\ gmo.result.skipped = <<>>
          /\ gmo.result.text = ""
          /\ gmo.reqs = <<Request("GET", <<"user">>, NoBody)>>

C30_Witness ==
    /\ gmo.ids_in = Ids(<<>>)
    /\ gmo.user_class = "parsed"
    /\ gmo.pc = "returned"
    /\ gmo.result.keys = {"objectives"}
    /\ gmo.reqs = <<Request("GET", <<"user">>, NoBody)>>

====
